---- MODULE Spec2Model ----
(***************************************************************************)
(* Model of the analysis engine of Remedial-Planner:                       *)
(*   parseExcelData and generateDemoData (src/components/Reports.tsx,      *)
(*   lines 135-381).                                                       *)
(*                                                                         *)
(* One state is one call of one of the two exported functions.  The call   *)
(* of parseExcelData runs the reader.onload handler block by block:        *)
(* sheet validation, mapping rows, student rows, class statistics,         *)
(* grouping and resolve; a throw inside the try block rejects.             *)
(*                                                                         *)
(* SpecSession is the session around these calls: the state of App         *)
(* (src/App.tsx), the navigation of Layout and the loads of UploadView     *)
(* (src/components/UploadView.tsx); a load settles with the value of       *)
(* ParseExcelData or DemoData in one step.                                 *)
(* SpecViews is a loaded ClassAnalysis under the renders and exports of    *)
(* Dashboard, Class Summary, Remedial Planner and Reports; SpecReports is  *)
(* one mounted Reports view with its generateParentReport calls, and       *)
(* SpecPlanner one mounted RemedialPlanner with its Promise.all calls.     *)
(*                                                                         *)
(* Representation of JavaScript values:                                    *)
(*   - a string is a sequence of chunks; the chunk " " is a run of white   *)
(*     space, every other chunk is text without white space at its ends    *)
(*     ("Q1 " is <<"Q1", " ">>, "" is << >>);                              *)
(*   - a sheet cell is a record  [t, s, n]: t = "none" for a cell that     *)
(*     sheet_to_json leaves out of the row object (undefined on lookup),   *)
(*     "str" for a text cell with value s, "num" for a numeric cell n;     *)
(*   - a number is [nan, v]: NaN or the integer v (the model's sheets      *)
(*     hold integers only; Infinity is outside the model);                 *)
(*   - a percentage is the exact fraction [n, d] with d > 0, so that       *)
(*     comparisons with 50, 70 and 80 are exact;                           *)
(*   - an object used as a dictionary is [keys, val]: the own keys in      *)
(*     the order Object.keys returns them, and the value of each key.      *)
(***************************************************************************)
EXTENDS Integers, Sequences, FiniteSets, TLC

VARIABLES fn, wb, pc, questionMap, skillMetadata, students, skillStats,
          weakestSkillsClasswide, groups, error

\* the session: the state of App and of the mounted UploadView, the loads
\* in flight, and the loads that have called onDataLoaded (ghost)
VARIABLES profile, currentView, analysisData, uploadError, isProcessing,
          pending, started, history

procVars == <<fn, wb, pc, questionMap, skillMetadata, students, skillStats,
              weakestSkillsClasswide, groups, error>>

appVars == <<profile, currentView, analysisData, uploadError, isProcessing,
             pending, started, history>>

\* the views that show analysisData: what the last render or export
\* computed (rendered); the state of Reports (selectedStudent, reportText)
\* and of RemedialPlanner (selectedGroup, generatedContent); the loading
\* flag of whichever of the two is mounted, and its service calls in flight
VARIABLES rendered, selectedStudent, reportText, selectedGroup,
          generatedContent, loading, calls

viewVars == <<rendered, selectedStudent, reportText, selectedGroup,
              generatedContent, loading, calls>>

vars == <<fn, wb, pc, questionMap, skillMetadata, students, skillStats,
          weakestSkillsClasswide, groups, error,
          profile, currentView, analysisData, uploadError, isProcessing,
          pending, started, history,
          rendered, selectedStudent, reportText, selectedGroup,
          generatedContent, loading, calls>>

(***************************************************************************)
(* JavaScript values                                                       *)
(***************************************************************************)
None == [t |-> "none", s |-> << >>, n |-> 0]

Txt(s) == [t |-> "str", s |-> s, n |-> 0]

Int2Cell(n) == [t |-> "num", s |-> << >>, n |-> n]

NaN == [nan |-> TRUE, v |-> 0]

Num(v) == [nan |-> FALSE, v |-> v]

\* the integers whose decimal text the model can parse back
NumeralRange == -20 .. 20

\* ToBoolean: undefined, "" and 0 are falsy
Truthy(c) ==
  CASE c.t = "none" -> FALSE
    [] c.t = "str"  -> Len(c.s) > 0
    [] OTHER        -> c.n # 0

\* a || b
Or(a, b) == IF Truthy(a) THEN a ELSE b

\* String(x): String(undefined) is the text "undefined"
JsString(c) ==
  CASE c.t = "none" -> <<"undefined">>
    [] c.t = "str"  -> c.s
    [] OTHER        -> <<ToString(c.n)>>

RECURSIVE TrimStart(_)
TrimStart(s) ==
  IF s # << >> /\ Head(s) = " " THEN TrimStart(Tail(s)) ELSE s

RECURSIVE TrimEnd(_)
TrimEnd(s) ==
  IF s # << >> /\ s[Len(s)] = " " THEN TrimEnd(SubSeq(s, 1, Len(s) - 1)) ELSE s

\* String.prototype.trim
Trim(s) == TrimEnd(TrimStart(s))

\* Number(x): undefined -> NaN, "" and white space -> 0, a numeral -> its
\* value, any other text -> NaN
JsNumber(c) ==
  CASE c.t = "none" -> NaN
    [] c.t = "num"  -> Num(c.n)
    [] OTHER        ->
         LET s == Trim(c.s) IN
           IF s = << >> THEN Num(0)
           ELSE IF Len(s) = 1 /\ \E k \in NumeralRange : ToString(k) = s[1]
                THEN Num(CHOOSE k \in NumeralRange : ToString(k) = s[1])
                ELSE NaN

\* row[h]: undefined when the row object has no property h
Get(row, h) == IF h \in DOMAIN row THEN row[h] ELSE None

(***************************************************************************)
(* Objects used as dictionaries (Record<string, T>)                        *)
(***************************************************************************)
EmptyObj == [keys |-> << >>, val |-> << >>]

\* an own key that is a canonical array index ("0", "1", ...): such keys
\* come first, in ascending numeric order, in Object.keys / Object.values
IsIndexKey(k) ==
  Len(k) = 1 /\ \E i \in 0 .. 20 : ToString(i) = k[1]

IndexOfKey(k) == CHOOSE i \in 0 .. 20 : ToString(i) = k[1]

Has(o, k) == k \in DOMAIN o.val

\* position of a new key in the own-key order
KeySlot(keys, k) ==
  IF IsIndexKey(k)
  THEN Cardinality({i \in 1 .. Len(keys) :
                      IsIndexKey(keys[i]) /\ IndexOfKey(keys[i]) < IndexOfKey(k)})
  ELSE Len(keys)

\* o[k] = v
ObjSet(o, k, v) ==
  IF Has(o, k)
  THEN [keys |-> o.keys, val |-> [o.val EXCEPT ![k] = v]]
  ELSE LET at == KeySlot(o.keys, k) IN
         [keys |-> SubSeq(o.keys, 1, at) \o <<k>> \o SubSeq(o.keys, at + 1, Len(o.keys)),
          val  |-> (k :> v) @@ o.val]

\* Object.values(o)
ObjValues(o) == [i \in 1 .. Len(o.keys) |-> o.val[o.keys[i]]]

(***************************************************************************)
(* Exact fractions for percentages                                         *)
(***************************************************************************)
Frac(n, d) == [n |-> n, d |-> d]

FracLess(a, b) == a.n * b.d < b.n * a.d

FracLeq(a, b) == a.n * b.d <= b.n * a.d

FracEq(a, b) == a.n * b.d = b.n * a.d

FracAdd(a, b) == Frac(a.n * b.d + b.n * a.d, a.d * b.d)

\* a < k for an integer k
FracBelow(a, k) == a.n < k * a.d

RECURSIVE FracSum(_)
FracSum(s) == IF s = << >> THEN Frac(0, 1) ELSE FracAdd(Head(s), FracSum(Tail(s)))

(***************************************************************************)
(* Array.prototype.sort((a, b) => K(a) - K(b)): stable, ascending          *)
(***************************************************************************)
\* The sort is computed on the keys: SortOrder(keys) is the sequence of
\* positions of the array in their order after the sort.
RECURSIVE InsertAsc(_, _, _)
InsertAsc(sorted, i, keys) ==
  IF sorted = << >> THEN <<i>>
  ELSE IF FracLess(keys[i], keys[Head(sorted)])
       THEN <<i>> \o sorted
       ELSE <<Head(sorted)>> \o InsertAsc(Tail(sorted), i, keys)

RECURSIVE SortPrefix(_, _)
SortPrefix(keys, n) ==
  IF n = 0 THEN << >> ELSE InsertAsc(SortPrefix(keys, n - 1), n, keys)

SortOrder(keys) == SortPrefix(keys, Len(keys))

(***************************************************************************)
(* 1. Questions mapping (Reports.tsx 152-171)                              *)
(***************************************************************************)
HQuestionNo == <<"Question No">>
HQuestionNoAlt == <<"QuestionNo">>
HQNo == <<"q_no">>
HSkillCode == <<"Skill Code">>
HSkillCodeAlt == <<"SkillCode">>
HSkillDescription == <<"Skill Description">>
HSkillDescriptionAlt == <<"SkillDescription">>
HMaxMarks == <<"Max Marks">>
HMaxMarksAlt == <<"MaxMarks">>

\* the four values the forEach callback reads from a mapping row
MappingFields(row) ==
  [qNo   |-> Trim(JsString(Or(Or(Get(row, HQuestionNo), Get(row, HQuestionNoAlt)),
                              Get(row, HQNo)))),
   sCode |-> Trim(JsString(Or(Get(row, HSkillCode), Get(row, HSkillCodeAlt)))),
   sDesc |-> Trim(JsString(Or(Get(row, HSkillDescription),
                              Get(row, HSkillDescriptionAlt)))),
   max   |-> JsNumber(Or(Get(row, HMaxMarks), Get(row, HMaxMarksAlt)))]

\* if (qNo && sCode && !isNaN(max))
MappingRowAccepted(f) == Len(f.qNo) > 0 /\ Len(f.sCode) > 0 /\ ~f.max.nan

\* the forEach callback: one mapping row against the two tables
MappingRow(tab, row) ==
  LET f == MappingFields(row) IN
    IF MappingRowAccepted(f)
    THEN [questionMap   |-> ObjSet(tab.questionMap, f.qNo,
                                   [questionNo |-> f.qNo, skillCode |-> f.sCode,
                                    skillDescription |-> f.sDesc,
                                    maxMarks |-> f.max.v]),
          skillMetadata |-> ObjSet(tab.skillMetadata, f.sCode, f.sDesc)]
    ELSE tab

RECURSIVE BuildTaxonomy(_, _)
BuildTaxonomy(tab, rows) ==
  IF rows = << >> THEN tab
  ELSE BuildTaxonomy(MappingRow(tab, Head(rows)), Tail(rows))

(***************************************************************************)
(* 2. Student results (Reports.tsx 177-242)                                *)
(***************************************************************************)
HStudentName == <<"Student Name">>
HStudentNameAlt == <<"StudentName">>
HStudentID == <<"Student ID">>
HStudentIDAlt == <<"StudentID">>

Min(a, b) == IF a < b THEN a ELSE b

\* Object.keys(skillMetadata).forEach(code => skillAccumulator[code] = {0, 0})
RECURSIVE InitAccumulator(_, _)
InitAccumulator(acc, codes) ==
  IF codes = << >> THEN acc
  ELSE InitAccumulator(ObjSet(acc, Head(codes), [earned |-> 0, max |-> 0]),
                       Tail(codes))

\* variant of ScoreColumn that adds the raw score, without Math.min
ScoreColumnUnclipped(st, row, key, qMap) ==
  LET qKey == Trim(key) IN
    IF ~Has(qMap, qKey) THEN st
    ELSE LET score   == JsNumber(row[key])
             mapping == qMap.val[qKey]
         IN IF score.nan THEN st
            ELSE LET old == st.skill.val[mapping.skillCode]
                 IN [skill       |-> [st.skill EXCEPT !.val[mapping.skillCode] =
                                        [earned |-> old.earned + score.v,
                                         max    |-> old.max + mapping.maxMarks]],
                     totalEarned |-> st.totalEarned + score.v,
                     totalMax    |-> st.totalMax + mapping.maxMarks]

\* variant of ScoreColumn that counts an unparseable cell as a score of 0
ScoreColumnNaNAsZero(st, row, key, qMap) ==
  LET qKey == Trim(key) IN
    IF ~Has(qMap, qKey) THEN st
    ELSE LET score     == JsNumber(row[key])
             mapping   == qMap.val[qKey]
             safeScore == IF score.nan THEN 0 ELSE Min(score.v, mapping.maxMarks)
             old       == st.skill.val[mapping.skillCode]
         IN [skill       |-> [st.skill EXCEPT !.val[mapping.skillCode] =
                                [earned |-> old.earned + safeScore,
                                 max    |-> old.max + mapping.maxMarks]],
             totalEarned |-> st.totalEarned + safeScore,
             totalMax    |-> st.totalMax + mapping.maxMarks]

\* variant of ScoreColumn that takes the larger of score and maxMarks
ScoreColumnMaxSlip(st, row, key, qMap) ==
  LET qKey == Trim(key) IN
    IF ~Has(qMap, qKey) THEN st
    ELSE LET score   == JsNumber(row[key])
             mapping == qMap.val[qKey]
         IN IF score.nan THEN st
            ELSE LET safeScore == IF score.v > mapping.maxMarks THEN score.v
                                  ELSE mapping.maxMarks
                     old       == st.skill.val[mapping.skillCode]
                 IN [skill       |-> [st.skill EXCEPT !.val[mapping.skillCode] =
                                        [earned |-> old.earned + safeScore,
                                         max    |-> old.max + mapping.maxMarks]],
                     totalEarned |-> st.totalEarned + safeScore,
                     totalMax    |-> st.totalMax + mapping.maxMarks]

\* the body of Object.keys(row).forEach(key => ...) for one column
ScoreColumn(st, row, key, qMap) ==
  LET qKey == Trim(key) IN
    IF ~Has(qMap, qKey) THEN st
    ELSE LET score   == JsNumber(row[key])
             mapping == qMap.val[qKey]
         IN IF score.nan THEN st
            ELSE LET safeScore == Min(score.v, mapping.maxMarks)
                     old       == st.skill.val[mapping.skillCode]
                 IN [skill       |-> ObjSet(st.skill, mapping.skillCode,
                                            [earned |-> old.earned + safeScore,
                                             max    |-> old.max + mapping.maxMarks]),
                     totalEarned |-> st.totalEarned + safeScore,
                     totalMax    |-> st.totalMax + mapping.maxMarks]

\* the column loop; the sums do not depend on the order of the columns
RECURSIVE ScoreColumns(_, _, _, _)
ScoreColumns(st, row, keys, qMap) ==
  IF keys = {} THEN st
  ELSE LET key == CHOOSE k \in keys : TRUE IN
         ScoreColumns(ScoreColumn(st, row, key, qMap), row, keys \ {key}, qMap)

\* variant of Accuracy that leaves the ratio unscaled
AccuracyRatio(data) ==
  IF data.max > 0 THEN Frac(data.earned, data.max) ELSE Frac(0, 1)

\* data.max > 0 ? (data.earned / data.max) * 100 : 0
Accuracy(data) ==
  IF data.max > 0 THEN Frac(100 * data.earned, data.max) ELSE Frac(0, 1)

\* variant of LevelOf without the Critical rung
LevelOfNoCritical(accuracy) ==
  IF FracBelow(accuracy, 70) THEN "Weak"
  ELSE IF FracBelow(accuracy, 80) THEN "Moderate"
  ELSE "Strong"

\* let level = Strong; if (accuracy < 50) ... else if (< 70) ... else if (< 80)
LevelOf(accuracy) ==
  IF FracBelow(accuracy, 50) THEN "Critical"
  ELSE IF FracBelow(accuracy, 70) THEN "Weak"
  ELSE IF FracBelow(accuracy, 80) THEN "Moderate"
  ELSE "Strong"

\* variant of SkillPerformancesOf that lists only the skills the student
\* has a counted score for
SkillPerformancesOfAttempted(acc, meta) ==
  LET codes == SelectSeq(acc.keys, LAMBDA c : acc.val[c].max > 0) IN
    [i \in 1 .. Len(codes) |->
       LET data == acc.val[codes[i]] IN
         [skillCode        |-> codes[i],
          skillDescription |-> meta.val[codes[i]],
          marksEarned      |-> data.earned,
          totalMaxMarks    |-> data.max,
          accuracy         |-> Frac(100 * data.earned, data.max),
          level            |-> LevelOf(Frac(100 * data.earned, data.max))]]

\* Object.keys(skillAccumulator).map(skillCode => ...)
SkillPerformancesOf(acc, meta) ==
  [i \in 1 .. Len(acc.keys) |->
     LET skillCode == acc.keys[i]
         data      == acc.val[skillCode]
         accuracy  == Accuracy(data)
     IN [skillCode        |-> skillCode,
         skillDescription |-> meta.val[skillCode],
         marksEarned      |-> data.earned,
         totalMaxMarks    |-> data.max,
         accuracy         |-> accuracy,
         level            |-> LevelOf(accuracy)]]

\* s => s.accuracy < 70
IsWeakPerformance(sp) == FracBelow(sp.accuracy, 70)

\* variant of WeakestSkillsOf that filters and does not sort
WeakestSkillsOfUnsorted(perfs) == SelectSeq(perfs, IsWeakPerformance)

\* skillPerformances.filter(s => s.accuracy < 70).sort((a, b) => a.accuracy - b.accuracy)
WeakestSkillsOf(perfs) ==
  LET weak  == SelectSeq(perfs, IsWeakPerformance)
      order == SortOrder([i \in 1 .. Len(weak) |-> weak[i].accuracy])
  IN [i \in 1 .. Len(weak) |-> weak[order[i]]]

\* if (!name || !id) return null
RowDropped(name, id) == ~Truthy(name) \/ Len(id) = 0

\* variant of AnalyseRow whose overallScore is the mean of the skill
\* accuracies
AnalyseRowAveraged(row, ref, qMap, meta) ==
  LET name == Or(Get(row, HStudentName), Get(row, HStudentNameAlt))
      id   == JsString(Or(Get(row, HStudentID), Get(row, HStudentIDAlt)))
  IN IF RowDropped(name, id) THEN << >>
     ELSE LET st    == ScoreColumns([skill       |-> InitAccumulator(EmptyObj, meta.keys),
                                     totalEarned |-> 0,
                                     totalMax    |-> 0],
                                    row, DOMAIN row, qMap)
              perfs == SkillPerformancesOf(st.skill, meta)
              total == FracSum([i \in 1 .. Len(perfs) |-> perfs[i].accuracy])
          IN <<[ref               |-> ref,
                studentId         |-> id,
                studentName       |-> name,
                overallScore      |-> IF Len(perfs) > 0
                                      THEN Frac(total.n, total.d * Len(perfs))
                                      ELSE Frac(0, 1),
                skillPerformances |-> perfs,
                weakestSkills     |-> WeakestSkillsOf(perfs)]>>

\* variant of AnalyseRow without the null return: a row without name or
\* id is analysed like any other
AnalyseRowKeepsAll(row, ref, qMap, meta) ==
  LET name == Or(Get(row, HStudentName), Get(row, HStudentNameAlt))
      id   == JsString(Or(Get(row, HStudentID), Get(row, HStudentIDAlt)))
      st    == ScoreColumns([skill       |-> InitAccumulator(EmptyObj, meta.keys),
                             totalEarned |-> 0,
                             totalMax    |-> 0],
                            row, DOMAIN row, qMap)
      perfs == SkillPerformancesOf(st.skill, meta)
  IN <<[ref               |-> ref,
        studentId         |-> id,
        studentName       |-> name,
        overallScore      |-> IF st.totalMax > 0
                              THEN Frac(100 * st.totalEarned, st.totalMax)
                              ELSE Frac(0, 1),
        skillPerformances |-> perfs,
        weakestSkills     |-> WeakestSkillsOf(perfs)]>>

\* the map callback for one row of StudentResults: << >> stands for null.
\* ref is the identity of the StudentAnalysis object (its row number).
AnalyseRow(row, ref, qMap, meta) ==
  LET name == Or(Get(row, HStudentName), Get(row, HStudentNameAlt))
      id   == JsString(Or(Get(row, HStudentID), Get(row, HStudentIDAlt)))
  IN IF RowDropped(name, id) THEN << >>
     ELSE LET st    == ScoreColumns([skill       |-> InitAccumulator(EmptyObj, meta.keys),
                                     totalEarned |-> 0,
                                     totalMax    |-> 0],
                                    row, DOMAIN row, qMap)
              perfs == SkillPerformancesOf(st.skill, meta)
          IN <<[ref               |-> ref,
                studentId         |-> id,
                studentName       |-> name,
                overallScore      |-> IF st.totalMax > 0
                                      THEN Frac(100 * st.totalEarned, st.totalMax)
                                      ELSE Frac(0, 1),
                skillPerformances |-> perfs,
                weakestSkills     |-> WeakestSkillsOf(perfs)]>>

\* variant of AnalyseRows that collects the students last row first
RECURSIVE AnalyseRowsReversed(_, _, _, _)
AnalyseRowsReversed(rows, n, qMap, meta) ==
  IF n = 0 THEN << >>
  ELSE AnalyseRow(rows[n], n, qMap, meta) \o AnalyseRowsReversed(rows, n - 1, qMap, meta)

\* resultsRaw.map(...).filter(s => s !== null)
RECURSIVE AnalyseRows(_, _, _, _)
AnalyseRows(rows, n, qMap, meta) ==
  IF n = 0 THEN << >>
  ELSE AnalyseRows(rows, n - 1, qMap, meta) \o AnalyseRow(rows[n], n, qMap, meta)

(***************************************************************************)
(* 3. Class level analysis (Reports.tsx 245-265)                           *)
(***************************************************************************)
\* s.skillPerformances.find(sp => sp.skillCode === code): << >> is undefined
FindPerformance(s, code) ==
  LET hits == SelectSeq(s.skillPerformances, LAMBDA sp : sp.skillCode = code)
  IN IF hits = << >> THEN << >> ELSE <<hits[1]>>

\* students.map(find).filter(Boolean)
RECURSIVE StudentSkills(_, _)
StudentSkills(studs, code) ==
  IF studs = << >> THEN << >>
  ELSE FindPerformance(Head(studs), code) \o StudentSkills(Tail(studs), code)

CountLevel(studentSkills, level) ==
  Len(SelectSeq(studentSkills, LAMBDA sp : sp.level = level))

\* studentSkills.length ? totalAcc / studentSkills.length : 0
AvgAccuracy(studentSkills) ==
  LET totalAcc == FracSum([i \in 1 .. Len(studentSkills) |-> studentSkills[i].accuracy])
  IN IF Len(studentSkills) # 0
     THEN Frac(totalAcc.n, totalAcc.d * Len(studentSkills))
     ELSE Frac(0, 1)

\* variant of SkillStatOf whose moderateCount filters on the Strong level
SkillStatOfCopyPaste(studs, code, meta) ==
  LET studentSkills == StudentSkills(studs, code) IN
    [skillCode     |-> code,
     description   |-> meta.val[code],
     avgAccuracy   |-> AvgAccuracy(studentSkills),
     strongCount   |-> CountLevel(studentSkills, "Strong"),
     moderateCount |-> CountLevel(studentSkills, "Strong"),
     weakCount     |-> CountLevel(studentSkills, "Weak"),
     criticalCount |-> CountLevel(studentSkills, "Critical")]

SkillStatOf(studs, code, meta) ==
  LET studentSkills == StudentSkills(studs, code) IN
    [skillCode     |-> code,
     description   |-> meta.val[code],
     avgAccuracy   |-> AvgAccuracy(studentSkills),
     strongCount   |-> CountLevel(studentSkills, "Strong"),
     moderateCount |-> CountLevel(studentSkills, "Moderate"),
     weakCount     |-> CountLevel(studentSkills, "Weak"),
     criticalCount |-> CountLevel(studentSkills, "Critical")]

\* Object.keys(skillMetadata).forEach(code => skillStats[code] = ...)
RECURSIVE BuildSkillStats(_, _, _, _)
BuildSkillStats(stats, codes, studs, meta) ==
  IF codes = << >> THEN stats
  ELSE BuildSkillStats(ObjSet(stats, Head(codes), SkillStatOf(studs, Head(codes), meta)),
                       Tail(codes), studs, meta)

\* variant of WeakestClasswide that slices without sorting
WeakestClasswideUnsorted(stats) ==
  LET all == ObjValues(stats) IN
    [i \in 1 .. Min(3, Len(all)) |-> all[i].skillCode]

\* Object.values(skillStats).sort(by avgAccuracy).slice(0, 3).map(s => s.skillCode)
WeakestClasswide(stats) ==
  LET all   == ObjValues(stats)
      order == SortOrder([i \in 1 .. Len(all) |-> all[i].avgAccuracy])
  IN [i \in 1 .. Min(3, Len(all)) |-> all[order[i]].skillCode]

(***************************************************************************)
(* 4. Grouping (Reports.tsx 268-284, 358-372)                              *)
(***************************************************************************)
\* variant of GroupStudent that keys the group by the last weakestSkills entry
GroupStudentLastWeakness(gmap, student) ==
  IF Len(student.weakestSkills) > 0
  THEN LET primaryWeakness == student.weakestSkills[Len(student.weakestSkills)]
           code    == primaryWeakness.skillCode
           created == IF Has(gmap, code) THEN gmap
                      ELSE ObjSet(gmap, code,
                                  [id               |-> <<"group-">> \o code,
                                   skillCode        |-> code,
                                   skillDescription |-> primaryWeakness.skillDescription,
                                   students         |-> << >>])
           g == created.val[code]
       IN ObjSet(created, code, [g EXCEPT !.students = Append(g.students, student)])
  ELSE gmap

\* the students.forEach callback
GroupStudent(gmap, student) ==
  IF Len(student.weakestSkills) > 0
  THEN LET primaryWeakness == student.weakestSkills[1]
           code    == primaryWeakness.skillCode
           created == IF Has(gmap, code) THEN gmap
                      ELSE ObjSet(gmap, code,
                                  [id               |-> <<"group-">> \o code,
                                   skillCode        |-> code,
                                   skillDescription |-> primaryWeakness.skillDescription,
                                   students         |-> << >>])
           g == created.val[code]
       IN ObjSet(created, code, [g EXCEPT !.students = Append(g.students, student)])
  ELSE gmap

RECURSIVE BuildGroups(_, _)
BuildGroups(gmap, studs) ==
  IF studs = << >> THEN gmap
  ELSE BuildGroups(GroupStudent(gmap, Head(studs)), Tail(studs))

(***************************************************************************)
(* generateDemoData (Reports.tsx 302-381)                                  *)
(***************************************************************************)
DemoSkills ==
  << [code |-> <<"M4.N.1">>, desc |-> <<"Multi-digit Multiplication">>],
     [code |-> <<"M4.F.2">>, desc |-> <<"Equivalent Fractions">>],
     [code |-> <<"M4.G.3">>, desc |-> <<"Area and Perimeter">>],
     [code |-> <<"M4.D.4">>, desc |-> <<"Interpreting Data Charts">>],
     [code |-> <<"M4.A.5">>, desc |-> <<"Algebraic Patterns">>],
     [code |-> <<"M4.M.6">>, desc |-> <<"Measurement Conversions">>] >>

\* Array.from({ length: 25 }): the model generates DemoStudents students
DemoStudents == 2

\* Math.random(): the k-th call of a run returns (seed + k * stride) mod 70
\* seventieths, for a seed and a stride the run picks; DemoRandom is that
\* value times 70, floored
DemoSeeds == 0 .. 69

DemoStrides == {0, 1, 10, 19}

DemoRandom(seed, stride, k) == (seed + k * stride) % 70

\* variant of DemoLevelOf with inclusive thresholds
DemoLevelOfInclusive(acc) ==
  IF acc <= 50 THEN "Critical"
  ELSE IF acc <= 70 THEN "Weak"
  ELSE IF acc <= 80 THEN "Moderate"
  ELSE "Strong"

\* let level = Strong; if (acc < 50) ... else if (acc < 70) ... else if (acc < 80)
DemoLevelOf(acc) ==
  IF acc < 50 THEN "Critical"
  ELSE IF acc < 70 THEN "Weak"
  ELSE IF acc < 80 THEN "Moderate"
  ELSE "Strong"

\* skills.map(skill => ...) for student i (0-based)
DemoSkillPerfs(i, seed, stride) ==
  [j \in 1 .. Len(DemoSkills) |->
     LET acc == DemoRandom(seed, stride, i * Len(DemoSkills) + j - 1) + 30 IN
       [skillCode        |-> DemoSkills[j].code,
        skillDescription |-> DemoSkills[j].desc,
        marksEarned      |-> acc,
        totalMaxMarks    |-> 100,
        accuracy         |-> Frac(acc, 1),
        level            |-> DemoLevelOf(acc)]]

Alphabet ==
  << "A", "B", "C", "D", "E", "F", "G", "H", "I", "J", "K", "L", "M",
     "N", "O", "P", "Q", "R", "S", "T", "U", "V", "W", "X", "Y", "Z" >>

DemoStudent(i, seed, stride) ==
  LET skillPerfs == DemoSkillPerfs(i, seed, stride) IN
    [ref               |-> i + 1,
     studentId         |-> <<"ST-", ToString(1000 + i)>>,
     studentName       |-> Txt(<<"Student", " ", Alphabet[(i % 26) + 1]>>
                               \o (IF i > 25 THEN <<ToString(i)>> ELSE << >>)),
     overallScore      |-> LET total == FracSum([j \in 1 .. Len(skillPerfs) |->
                                                   skillPerfs[j].accuracy])
                           IN Frac(total.n, total.d * Len(DemoSkills)),
     skillPerformances |-> skillPerfs,
     weakestSkills     |-> WeakestSkillsOf(skillPerfs)]

DemoSkillStat(studs, skill) ==
  LET studentSkills == [i \in 1 .. Len(studs) |->
                          FindPerformance(studs[i], skill.code)[1]]
      total == FracSum([i \in 1 .. Len(studentSkills) |-> studentSkills[i].accuracy])
  IN [skillCode     |-> skill.code,
      description   |-> skill.desc,
      avgAccuracy   |-> Frac(total.n, total.d * Len(studs)),
      strongCount   |-> CountLevel(studentSkills, "Strong"),
      moderateCount |-> CountLevel(studentSkills, "Moderate"),
      weakCount     |-> CountLevel(studentSkills, "Weak"),
      criticalCount |-> CountLevel(studentSkills, "Critical")]

RECURSIVE DemoSkillStats(_, _, _)
DemoSkillStats(stats, skills, studs) ==
  IF skills = << >> THEN stats
  ELSE DemoSkillStats(ObjSet(stats, Head(skills).code, DemoSkillStat(studs, Head(skills))),
                      Tail(skills), studs)

\* weakestSkillsClasswide: ['M4.F.2', 'M4.G.3']
DemoWeakestClasswide == << <<"M4.F.2">>, <<"M4.G.3">> >>

(***************************************************************************)
(* Input workbooks                                                         *)
(***************************************************************************)
MaxMapRows == 2

MaxStudents == 2

WideSkills == 4

WideStudents == 2

\* sheet_to_json leaves empty cells out of the row object
Prune(f) == [h \in {x \in DOMAIN f : f[x].t # "none"} |-> f[h]]

MkMapRow(q, sc, d, m) ==
  Prune((HQuestionNo :> q) @@ (HSkillCode :> sc) @@ (HSkillDescription :> d)
        @@ (HMaxMarks :> m))

MkMapRowAlt(q, sc, d, m) ==
  Prune((HQuestionNoAlt :> q) @@ (HSkillCodeAlt :> sc) @@ (HSkillDescriptionAlt :> d)
        @@ (HMaxMarksAlt :> m))

CellQ1 == Txt(<<"Q1">>)
CellQ2 == Txt(<<"Q2">>)
CellA == Txt(<<"A">>)
CellB == Txt(<<"B">>)
DescA == Txt(<<"skill", " ", "A">>)
DescB == Txt(<<"skill", " ", "B">>)
Blank == Txt(<<" ">>)

RowQ1A == MkMapRow(CellQ1, CellA, DescA, Int2Cell(5))
RowQ2B == MkMapRow(Txt(<<"Q2", " ">>), CellB, DescB, Int2Cell(5))
RowQ2A == MkMapRowAlt(CellQ2, Txt(<<" ", "A">>), DescA, Int2Cell(10))

\* well-formed mapping rows
GoodMapRows == {RowQ1A, RowQ2B, RowQ2A}

\* mapping rows with one cell missing, blank or not a positive number
OddMapRows ==
  { MkMapRow(None, CellA, DescA, Int2Cell(5)),
    MkMapRow(Blank, CellA, DescA, Int2Cell(5)),
    MkMapRow(CellQ1, None, None, Int2Cell(5)),
    MkMapRow(CellQ1, Blank, DescA, Int2Cell(5)),
    MkMapRow(CellQ1, CellA, DescA, None),
    MkMapRow(CellQ1, CellA, DescA, Txt(<<"five">>)),
    MkMapRow(CellQ1, CellA, DescA, Int2Cell(0)),
    MkMapRow(CellQ1, CellA, DescA, Txt(<<"0">>)),
    MkMapRow(CellQ1, CellA, DescA, Int2Cell(-5)),
    MkMapRow(CellQ1, CellB, None, Txt(<<" ", "10">>)) }

MapRowSet == GoodMapRows \cup OddMapRows

MkStudRow(name, id, q1, q2) ==
  Prune((HStudentName :> name) @@ (HStudentID :> id)
        @@ (<<"Q1">> :> q1) @@ (<<"Q2">> :> q2))

MkStudRowAlt(name, id, q1, q2) ==
  Prune((HStudentNameAlt :> name) @@ (HStudentIDAlt :> id)
        @@ (<<"Q1">> :> q1) @@ (<<"Q2">> :> q2))

Ann == Txt(<<"Ann">>)

\* score cells: absent, in range, above the maximum, negative, text
ScoreCells ==
  { None, Int2Cell(0), Int2Cell(3), Int2Cell(5), Int2Cell(9), Int2Cell(-3),
    Txt(<<"absent">>), Blank }

FewScoreCells == {Int2Cell(0), Int2Cell(5)}

\* rows of one named student: every score cell under Q1 with a score under
\* Q2, and the row without any question column
ScoredRows ==
  {MkStudRow(Ann, Txt(<<"S1">>), q1, q2) : q1 \in ScoreCells, q2 \in FewScoreCells}
    \cup {MkStudRow(Ann, Txt(<<"S1">>), None, None)}

\* rows whose name or ID cell is missing, empty, zero or under the alias header
IdentityRows ==
  { MkStudRowAlt(Txt(<<"Bob">>), Int2Cell(7), Int2Cell(5), Int2Cell(0)),
    MkStudRow(None, Txt(<<"S3">>), Int2Cell(3), Int2Cell(5)),
    MkStudRow(Txt(<<"Cy">>), None, Int2Cell(3), Int2Cell(5)),
    MkStudRow(None, None, Int2Cell(5), Int2Cell(0)),
    MkStudRow(Txt(<<"Di">>), Txt(<< >>), Int2Cell(5), Int2Cell(0)),
    MkStudRow(Txt(<<"Ed">>), Int2Cell(0), Int2Cell(3), Int2Cell(5)) }

\* rows with a second column whose header differs from "Q1" by white space
PaddedRows ==
  { (<<" ", "Q1">> :> Int2Cell(5)) @@ MkStudRow(Ann, Txt(<<"S1">>), Int2Cell(5), Int2Cell(0)),
    (<<"Q1", " ">> :> Int2Cell(3)) @@ MkStudRow(Ann, Txt(<<"S1">>), None, Int2Cell(5)) }

StudRowSet == ScoredRows \cup IdentityRows \cup PaddedRows

BothSheets == {"QuestionsMapping", "StudentResults"}

Workbook(sheets, mapping, results) ==
  [sheets |-> sheets, mapping |-> mapping, results |-> results]

PlainRows ==
  { MkStudRow(Ann, Txt(<<"S1">>), Int2Cell(5), Int2Cell(0)),
    MkStudRow(Ann, Txt(<<"S1">>), Int2Cell(-3), Int2Cell(9)) }

\* any mapping rows, at most one plain student row
MappingWorkbook ==
  \E k \in 0 .. MaxMapRows, j \in 0 .. 1 :
    \E m \in [1 .. k -> MapRowSet], r \in [1 .. j -> PlainRows] :
      wb = Workbook(BothSheets, m, r)

\* a well-formed mapping, any student rows
StudentWorkbook ==
  \E m \in {<<RowQ1A, RowQ2B>>, <<RowQ1A, RowQ2A>>}, j \in 0 .. MaxStudents :
    \E r \in [1 .. j -> StudRowSet] :
      wb = Workbook(BothSheets, m, r)

\* skill codes of the wide workbooks; "2", "1" and "0" are index keys
WideCodes == << <<"S">>, <<"2">>, <<"K">>, <<"1">>, <<"Z">>, <<"0">>, <<"M">> >>

WideMapping(n) ==
  [i \in 1 .. n |->
     MkMapRow(Txt(<<"W" \o ToString(i)>>), Txt(WideCodes[i]),
              Txt(<<"skill", " ">> \o WideCodes[i]), Int2Cell(5))]

\* the row of a student who scores 4 on the questions from..to and 0 on
\* the others
WideStudRow(n, from, to) ==
  (HStudentName :> Txt(<<"Wim">>)) @@ (HStudentID :> Txt(<<"W">>))
  @@ [h \in {<<"W" \o ToString(i)>> : i \in 1 .. n} |->
        LET i == CHOOSE k \in 1 .. n : h = <<"W" \o ToString(k)>> IN
          IF from <= i /\ i <= to THEN Int2Cell(4) ELSE Int2Cell(0)]

WideStudRows(n) ==
  {WideStudRow(n, 1, 0)} \cup
  {WideStudRow(n, p[1], p[2]) : p \in {q \in (1 .. n) \X (1 .. n) : q[1] <= q[2]}}

\* one question per skill, up to WideSkills skills, every student answers all
WideWorkbook ==
  \E n \in 0 .. WideSkills, j \in 0 .. WideStudents :
    \E r \in [1 .. j -> WideStudRows(n)] :
      wb = Workbook(BothSheets, WideMapping(n), r)

\* workbooks that lack a required sheet
BrokenWorkbook ==
  \E sh \in { {}, {"QuestionsMapping"}, {"StudentResults"}, {"Sheet1"},
              {"questionsmapping", "StudentResults"},
              {"QuestionsMapping", "Student Results"} },
     m \in {<< >>, <<RowQ1A, RowQ2B>>},
     r \in {<< >>, <<MkStudRow(Ann, Txt(<<"S1">>), Int2Cell(5), Int2Cell(0))>>} :
    wb = Workbook(sh, m, r)

NoWorkbook == Workbook({}, << >>, << >>)

(***************************************************************************)
(* The state machine                                                       *)
(***************************************************************************)
\* useState(null) of App.tsx 12 and 14 and of UploadView.tsx 11 is << >> or
\* "", useState('upload') and useState(false) are as written
NoSession ==
  /\ profile = FALSE
  /\ currentView = "upload"
  /\ analysisData = << >>
  /\ uploadError = ""
  /\ isProcessing = FALSE
  /\ pending = << >>
  /\ started = 0
  /\ history = << >>

\* nothing rendered; useState(null), useState(''), useState(false) and
\* useState({}) of Reports.tsx 13-15 and RemedialPlanner.tsx 18-20
NoViews ==
  /\ rendered = << >>
  /\ selectedStudent = << >>
  /\ reportText = ""
  /\ selectedGroup = << >>
  /\ generatedContent = << >>
  /\ loading = FALSE
  /\ calls = << >>

InvalidFileMessage ==
  "Invalid File: Must contain 'QuestionsMapping' and 'StudentResults' sheets."

Init ==
  /\ \/ /\ fn = "parseExcelData"
        /\ (MappingWorkbook \/ StudentWorkbook \/ WideWorkbook \/ BrokenWorkbook)
     \/ /\ fn = "generateDemoData"
        /\ wb = NoWorkbook
  /\ pc = "start"
  /\ questionMap = EmptyObj
  /\ skillMetadata = EmptyObj
  /\ students = << >>
  /\ skillStats = EmptyObj
  /\ weakestSkillsClasswide = << >>
  /\ groups = << >>
  /\ error = ""
  /\ NoSession
  /\ NoViews

\* variant of SheetsMissing that throws only when both sheets are missing
SheetsMissingBoth(w) ==
  "QuestionsMapping" \notin w.sheets /\ "StudentResults" \notin w.sheets

\* if (!SheetNames.includes('QuestionsMapping') || !SheetNames.includes('StudentResults'))
SheetsMissing(w) ==
  "QuestionsMapping" \notin w.sheets \/ "StudentResults" \notin w.sheets

\* Reports.tsx 144-146, 293-295: throw inside try, caught, reject(err)
RejectInvalidFile ==
  /\ fn = "parseExcelData" /\ pc = "start"
  /\ SheetsMissing(wb)
  /\ pc' = "rejected"
  /\ error' = InvalidFileMessage
  /\ UNCHANGED <<fn, wb, questionMap, skillMetadata, students, skillStats,
                 weakestSkillsClasswide, groups>>
  /\ UNCHANGED appVars
  /\ UNCHANGED viewVars

\* Reports.tsx 144: the sheets are there, the handler goes on
ValidateSheets ==
  /\ fn = "parseExcelData" /\ pc = "start"
  /\ ~SheetsMissing(wb)
  /\ pc' = "validated"
  /\ UNCHANGED <<fn, wb, questionMap, skillMetadata, students, skillStats,
                 weakestSkillsClasswide, groups, error>>
  /\ UNCHANGED appVars
  /\ UNCHANGED viewVars

\* Reports.tsx 149-171
ParseMapping ==
  /\ pc = "validated"
  /\ LET tab == BuildTaxonomy([questionMap |-> EmptyObj, skillMetadata |-> EmptyObj],
                              wb.mapping)
     IN /\ questionMap' = tab.questionMap
        /\ skillMetadata' = tab.skillMetadata
  /\ pc' = "mapped"
  /\ UNCHANGED <<fn, wb, students, skillStats, weakestSkillsClasswide, groups, error>>
  /\ UNCHANGED appVars
  /\ UNCHANGED viewVars

\* Reports.tsx 174-242
ParseStudents ==
  /\ pc = "mapped"
  /\ students' = AnalyseRows(wb.results, Len(wb.results), questionMap, skillMetadata)
  /\ pc' = "analysed"
  /\ UNCHANGED <<fn, wb, questionMap, skillMetadata, skillStats,
                 weakestSkillsClasswide, groups, error>>
  /\ UNCHANGED appVars
  /\ UNCHANGED viewVars

\* Reports.tsx 245-265
ClassLevelAnalysis ==
  /\ pc = "analysed"
  /\ LET stats == BuildSkillStats(EmptyObj, skillMetadata.keys, students, skillMetadata)
     IN /\ skillStats' = stats
        /\ weakestSkillsClasswide' = WeakestClasswide(stats)
  /\ pc' = "aggregated"
  /\ UNCHANGED <<fn, wb, questionMap, skillMetadata, students, groups, error>>
  /\ UNCHANGED appVars
  /\ UNCHANGED viewVars

\* Reports.tsx 268-291: grouping, then resolve({..., groups: Object.values(groupsMap)})
GroupAndResolve ==
  /\ pc = "aggregated"
  /\ groups' = ObjValues(BuildGroups(EmptyObj, students))
  /\ pc' = "resolved"
  /\ UNCHANGED <<fn, wb, questionMap, skillMetadata, students, skillStats,
                 weakestSkillsClasswide, error>>
  /\ UNCHANGED appVars
  /\ UNCHANGED viewVars

\* Reports.tsx 302-381: the whole executor of generateDemoData
GenerateDemoData ==
  /\ fn = "generateDemoData" /\ pc = "start"
  /\ \E seed \in DemoSeeds, stride \in DemoStrides :
       LET studs == [i \in 1 .. DemoStudents |-> DemoStudent(i - 1, seed, stride)] IN
         /\ students' = studs
         /\ skillStats' = DemoSkillStats(EmptyObj, DemoSkills, studs)
         /\ groups' = ObjValues(BuildGroups(EmptyObj, studs))
  /\ weakestSkillsClasswide' = DemoWeakestClasswide
  /\ pc' = "resolved"
  /\ UNCHANGED <<fn, wb, questionMap, skillMetadata, error>>
  /\ UNCHANGED appVars
  /\ UNCHANGED viewVars

Next ==
  \/ RejectInvalidFile
  \/ ValidateSheets
  \/ ParseMapping
  \/ ParseStudents
  \/ ClassLevelAnalysis
  \/ GroupAndResolve
  \/ GenerateDemoData

Spec == Init /\ [][Next]_vars

(***************************************************************************)
(* The session: App, Layout and UploadView                                 *)
(***************************************************************************)
\* the most loads a session starts
MaxLoads == 2

\* Reports.tsx 135-299: what the promise of parseExcelData settles with once
\* the reader has loaded the file
ParseExcelData(w) ==
  IF SheetsMissing(w)
  THEN [ok |-> FALSE, data |-> << >>, message |-> InvalidFileMessage]
  ELSE LET tab   == BuildTaxonomy([questionMap |-> EmptyObj, skillMetadata |-> EmptyObj],
                                  w.mapping)
           studs == AnalyseRows(w.results, Len(w.results), tab.questionMap,
                                tab.skillMetadata)
           stats == BuildSkillStats(EmptyObj, tab.skillMetadata.keys, studs,
                                    tab.skillMetadata)
       IN [ok      |-> TRUE,
           data    |-> <<[students               |-> studs,
                          skillStats             |-> stats,
                          weakestSkillsClasswide |-> WeakestClasswide(stats),
                          groups                 |-> ObjValues(BuildGroups(EmptyObj, studs))]>>,
           message |-> ""]

\* Reports.tsx 302-381: what the promise of generateDemoData resolves with
DemoData(seed, stride) ==
  LET studs == [i \in 1 .. DemoStudents |-> DemoStudent(i - 1, seed, stride)] IN
    [students               |-> studs,
     skillStats             |-> DemoSkillStats(EmptyObj, DemoSkills, studs),
     weakestSkillsClasswide |-> DemoWeakestClasswide,
     groups                 |-> ObjValues(BuildGroups(EmptyObj, studs))]

\* the files the user picks: one student, two students, a sheet missing
FileOne ==
  Workbook(BothSheets, <<RowQ1A, RowQ2B>>,
           <<MkStudRow(Ann, Txt(<<"S1">>), Int2Cell(5), Int2Cell(0))>>)

FileTwo ==
  Workbook(BothSheets, <<RowQ1A, RowQ2A>>,
           <<MkStudRow(Txt(<<"Bo">>), Txt(<<"S2">>), Int2Cell(3), Int2Cell(5)),
             MkStudRow(Txt(<<"Cy">>), Txt(<<"S3">>), Int2Cell(0), Int2Cell(9))>>)

FileNoResults == Workbook({"QuestionsMapping"}, <<RowQ1A, RowQ2B>>, << >>)

SessionFiles == {FileOne, FileTwo, FileNoResults}

\* the random sources of the demo loads of a session: seed and stride
SessionRandoms == {<<0, 19>>, <<40, 19>>}

\* vite.config.ts 485-491: navItems
Views == {"upload", "dashboard", "class-summary", "planner", "reports"}

RequireData(id) == id # "upload"

\* a load that is in flight: the n-th load of the session, from a file or
\* from the demo generator; orphan when the UploadView that started it has
\* been unmounted since
FileLoad(n, file) ==
  [id |-> n, kind |-> "file", file |-> file, seed |-> <<0, 0>>, orphan |-> FALSE]

DemoLoad(n, random) ==
  [id |-> n, kind |-> "demo", file |-> NoWorkbook, seed |-> random, orphan |-> FALSE]

RemoveAt(q, i) == [k \in 1 .. Len(q) - 1 |-> IF k < i THEN q[k] ELSE q[k + 1]]

Orphaned(q) == [k \in 1 .. Len(q) |-> [q[k] EXCEPT !.orphan = TRUE]]

\* UploadView.tsx 25: err.message || 'Failed to parse Excel file. ...'
MessageOf(message) ==
  IF message = "" THEN "Failed to parse Excel file. Ensure strict format."
  ELSE message

InitSession ==
  /\ fn = "none"
  /\ wb = NoWorkbook
  /\ pc = "idle"
  /\ questionMap = EmptyObj
  /\ skillMetadata = EmptyObj
  /\ students = << >>
  /\ skillStats = EmptyObj
  /\ weakestSkillsClasswide = << >>
  /\ groups = << >>
  /\ error = ""
  /\ NoSession
  /\ NoViews

\* variant of HandleDataLoaded that adds the new students to the old ones
HandleDataLoadedMerge(data) ==
  /\ analysisData' = IF analysisData = << >> THEN <<data>>
                     ELSE <<[data EXCEPT !.students = analysisData[1].students \o @]>>
  /\ currentView' = "dashboard"

\* App.tsx 16-19: setAnalysisData(data); setCurrentView('dashboard')
HandleDataLoaded(data) ==
  /\ analysisData' = <<data>>
  /\ currentView' = "dashboard"

\* App.tsx 12, 21-23: OnboardingView calls onComplete = setProfile; from
\* then on App renders Layout and the current view
CompleteOnboarding ==
  /\ ~profile
  /\ profile' = TRUE
  /\ UNCHANGED <<currentView, analysisData, uploadError, isProcessing,
                 pending, started, history>>
  /\ UNCHANGED procVars
  /\ UNCHANGED viewVars

\* App.tsx 21-40: what App shows
RenderView ==
  IF ~profile THEN "OnboardingView"
  ELSE CASE currentView = "upload" -> "UploadView"
         [] currentView = "dashboard" ->
              IF analysisData # << >> THEN "Dashboard" ELSE "RedirectToUpload"
         [] currentView = "class-summary" ->
              IF analysisData # << >> THEN "ClassSummaryView" ELSE "RedirectToUpload"
         [] currentView = "planner" ->
              IF analysisData # << >> THEN "RemedialPlanner" ELSE "RedirectToUpload"
         [] currentView = "reports" ->
              IF analysisData # << >> THEN "Reports" ELSE "RedirectToUpload"
         [] OTHER -> "UploadView"

\* variant of IsDisabled that leaves every button enabled
IsDisabledNever(id) == FALSE

\* App.tsx 46 (hasData = !!analysisData), vite.config.ts 540:
\* isDisabled = item.requireData && !hasData
IsDisabled(id) == RequireData(id) /\ analysisData = << >>

\* vite.config.ts 493-496, 539-545: a click on a navigation button that is
\* not disabled; App.tsx 25-40: leaving 'upload' unmounts UploadView, whose
\* state starts afresh at the next mount
ChangeView(id) ==
  /\ profile
  /\ ~IsDisabled(id)
  /\ currentView' = id
  /\ IF currentView = "upload" /\ id # "upload"
     THEN /\ uploadError' = ""
          /\ isProcessing' = FALSE
          /\ pending' = Orphaned(pending)
     ELSE UNCHANGED <<uploadError, isProcessing, pending>>
  /\ UNCHANGED <<profile, analysisData, started, history>>
  /\ UNCHANGED procVars
  /\ UNCHANGED viewVars

\* UploadView.tsx 14-22: a file is picked (with no file the handler
\* returns); up to the await of parseExcelData
HandleFileUpload(file) ==
  /\ profile /\ currentView = "upload"
  /\ started < MaxLoads
  /\ isProcessing' = TRUE
  /\ uploadError' = ""
  /\ pending' = Append(pending, FileLoad(started + 1, file))
  /\ started' = started + 1
  /\ UNCHANGED <<profile, currentView, analysisData, history>>
  /\ UNCHANGED procVars
  /\ UNCHANGED viewVars

\* UploadView.tsx 22-23, 26-28: the promise resolves; onDataLoaded(data),
\* then setIsProcessing(false), on an UploadView that App unmounts
FileResolved(i) ==
  /\ pending[i].kind = "file"
  /\ ParseExcelData(pending[i].file).ok
  /\ HandleDataLoaded(ParseExcelData(pending[i].file).data[1])
  /\ history' = Append(history, pending[i])
  /\ uploadError' = ""
  /\ isProcessing' = FALSE
  /\ pending' = Orphaned(RemoveAt(pending, i))
  /\ UNCHANGED <<profile, started>>
  /\ UNCHANGED procVars
  /\ UNCHANGED viewVars

\* UploadView.tsx 24-28: the promise rejects; setError, setIsProcessing(false),
\* which do nothing when the UploadView of the load is unmounted
FileRejected(i) ==
  /\ pending[i].kind = "file"
  /\ ~ParseExcelData(pending[i].file).ok
  /\ IF pending[i].orphan
     THEN UNCHANGED <<uploadError, isProcessing>>
     ELSE /\ uploadError' = MessageOf(ParseExcelData(pending[i].file).message)
          /\ isProcessing' = FALSE
  /\ pending' = RemoveAt(pending, i)
  /\ UNCHANGED <<profile, currentView, analysisData, started, history>>
  /\ UNCHANGED procVars
  /\ UNCHANGED viewVars

\* UploadView.tsx 31-35: the demo button is clicked; up to setTimeout
LoadDemo(random) ==
  /\ profile /\ currentView = "upload"
  /\ started < MaxLoads
  /\ isProcessing' = TRUE
  /\ pending' = Append(pending, DemoLoad(started + 1, random))
  /\ started' = started + 1
  /\ UNCHANGED <<profile, currentView, analysisData, uploadError, history>>
  /\ UNCHANGED procVars
  /\ UNCHANGED viewVars

\* UploadView.tsx 35-38: the timer fires; onDataLoaded(data),
\* setIsProcessing(false)
DemoTimerFired(i) ==
  /\ pending[i].kind = "demo"
  /\ HandleDataLoaded(DemoData(pending[i].seed[1], pending[i].seed[2]))
  /\ history' = Append(history, pending[i])
  /\ uploadError' = ""
  /\ isProcessing' = FALSE
  /\ pending' = Orphaned(RemoveAt(pending, i))
  /\ UNCHANGED <<profile, started>>
  /\ UNCHANGED procVars
  /\ UNCHANGED viewVars

NextSession ==
  \/ CompleteOnboarding
  \/ \E id \in Views : ChangeView(id)
  \/ \E file \in SessionFiles : HandleFileUpload(file)
  \/ \E i \in 1 .. Len(pending) : FileResolved(i)
  \/ \E i \in 1 .. Len(pending) : FileRejected(i)
  \/ \E random \in SessionRandoms : LoadDemo(random)
  \/ \E i \in 1 .. Len(pending) : DemoTimerFired(i)

SpecSession == InitSession /\ [][NextSession]_vars

(***************************************************************************)
(* The views of a loaded ClassAnalysis: Dashboard, Class Summary,          *)
(* Remedial Planner, Reports                                               *)
(***************************************************************************)
Levels == {"Strong", "Moderate", "Weak", "Critical"}

\* a >= k for an integer k
FracAtLeast(a, k) == a.n >= k * a.d

\* variant of DashboardLevel with > in place of >=
DashboardLevelStrict(avg) ==
  IF FracLess(Frac(80, 1), avg) THEN "Strong"
  ELSE IF FracLess(Frac(70, 1), avg) THEN "Moderate"
  ELSE IF FracLess(Frac(50, 1), avg) THEN "Weak"
  ELSE "Critical"

\* vite.config.ts 38-44: if (avg >= 80) ... else if (>= 70) ... else if (>= 50)
DashboardLevel(avg) ==
  IF FracAtLeast(avg, 80) THEN "Strong"
  ELSE IF FracAtLeast(avg, 70) THEN "Moderate"
  ELSE IF FracAtLeast(avg, 50) THEN "Weak"
  ELSE "Critical"

\* vite.config.ts 31-44: the four counters after data.students.forEach
ProficiencyCounts(data) ==
  [level \in Levels |->
     Cardinality({i \in 1 .. Len(data.students) :
                    DashboardLevel(data.students[i].overallScore) = level})]

\* vite.config.ts 117-118, 149, 433 and App.tsx 160-161:
\* Object.values(data.skillStats).sort(by avgAccuracy); the sort works in
\* place on the array Object.values has just made, data keeps its own
SortedSkills(data) ==
  LET all   == ObjValues(data.skillStats)
      order == SortOrder([i \in 1 .. Len(all) |-> all[i].avgAccuracy])
  IN [data |-> data, out |-> [i \in 1 .. Len(all) |-> all[order[i]]]]

\* sort((a, b) => b.students.length - a.students.length): stable, descending
GroupOrder(gs) ==
  SortOrder([i \in 1 .. Len(gs) |-> Frac(0 - Len(gs[i].students), 1)])

\* variant of SortedGroups that sorts data.groups itself
SortedGroupsInPlace(data) ==
  LET order  == GroupOrder(data.groups)
      sorted == [i \in 1 .. Len(data.groups) |-> data.groups[order[i]]]
  IN [data |-> [data EXCEPT !.groups = sorted], out |-> sorted]

\* RemedialPlanner.tsx 23: [...data.groups].sort(...), a sort of the copy
SortedGroups(data) ==
  LET copy  == data.groups
      order == GroupOrder(copy)
  IN [data |-> data, out |-> [i \in 1 .. Len(copy) |-> copy[order[i]]]]

\* what a render or an export has computed from data
Rendering(view, counts, skills, gs) ==
  <<[view |-> view, proficiencyCounts |-> counts, skills |-> skills, groups |-> gs]>>

NoCounts == [level \in Levels |-> 0]

\* three students: the worst skill of the first is A, of the others B
FileThree ==
  Workbook(BothSheets, <<RowQ1A, RowQ2B>>,
           <<MkStudRow(Ann, Txt(<<"S1">>), Int2Cell(0), Int2Cell(5)),
             MkStudRow(Txt(<<"Bo">>), Txt(<<"S2">>), Int2Cell(5), Int2Cell(0)),
             MkStudRow(Txt(<<"Cy">>), Txt(<<"S3">>), Int2Cell(3), Int2Cell(0))>>)

\* the files whose analysis the views show
ViewFiles ==
  {FileOne, FileTwo, FileThree}
    \cup {Workbook(BothSheets, <<RowQ1A, RowQ2B>>, <<r>>) : r \in ScoredRows}
    \cup {Workbook(BothSheets, <<RowQ1A, RowQ2A>>, <<r>>) : r \in ScoredRows}

\* App after handleDataLoaded(data): the dashboard is the current view
InitViews ==
  /\ fn = "none"
  /\ wb = NoWorkbook
  /\ pc = "idle"
  /\ questionMap = EmptyObj
  /\ skillMetadata = EmptyObj
  /\ students = << >>
  /\ skillStats = EmptyObj
  /\ weakestSkillsClasswide = << >>
  /\ groups = << >>
  /\ error = ""
  /\ profile = TRUE
  /\ currentView = "dashboard"
  /\ \/ \E file \in ViewFiles : analysisData = ParseExcelData(file).data
     \/ \E seed \in DemoSeeds, stride \in DemoStrides :
          analysisData = <<DemoData(seed, stride)>>
  /\ uploadError = ""
  /\ isProcessing = FALSE
  /\ pending = << >>
  /\ started = 0
  /\ history = << >>
  /\ NoViews

\* what stays as it is when a view renders or exports
ViewFrame ==
  /\ UNCHANGED <<profile, uploadError, isProcessing, pending, started, history>>
  /\ UNCHANGED <<selectedStudent, reportText, selectedGroup, generatedContent,
                 loading, calls>>
  /\ UNCHANGED procVars

\* App.tsx 29-30, vite.config.ts 22-62, 431-434: the Dashboard renders
RenderDashboard ==
  /\ currentView' = "dashboard"
  /\ LET data == analysisData[1]
         r    == SortedSkills(data)
     IN /\ rendered' = Rendering("dashboard", ProficiencyCounts(data), r.out, << >>)
        /\ analysisData' = <<r.data>>
  /\ ViewFrame

\* vite.config.ts 65-142 (handleDownloadPDF), 144-230 (handleDownloadWord)
DownloadDashboardReport(kind) ==
  /\ currentView = "dashboard"
  /\ LET data == analysisData[1]
         r    == SortedSkills(data)
     IN /\ rendered' = Rendering(kind, ProficiencyCounts(data), r.out, << >>)
        /\ analysisData' = <<r.data>>
  /\ UNCHANGED currentView
  /\ ViewFrame

\* vite.config.ts 251-268 (downloadSkillsReport): the skills as they are listed
DownloadSkillsReport ==
  /\ currentView = "dashboard"
  /\ rendered' = Rendering("csv", NoCounts, ObjValues(analysisData[1].skillStats), << >>)
  /\ UNCHANGED <<currentView, analysisData>>
  /\ ViewFrame

\* App.tsx 31-32, 61-202: the Class Summary renders its skills table
RenderClassSummary ==
  /\ currentView' = "class-summary"
  /\ LET r == SortedSkills(analysisData[1])
     IN /\ rendered' = Rendering("class-summary", NoCounts, r.out, << >>)
        /\ analysisData' = <<r.data>>
  /\ ViewFrame

\* App.tsx 33-34, RemedialPlanner.tsx 17-23: the planner renders its groups
RenderPlanner ==
  /\ currentView' = "planner"
  /\ LET r == SortedGroups(analysisData[1])
     IN /\ rendered' = Rendering("planner", NoCounts, << >>, r.out)
        /\ analysisData' = <<r.data>>
  /\ ViewFrame

\* App.tsx 35-36, Reports.tsx 57-60: the student list of Reports renders
RenderReports ==
  /\ currentView' = "reports"
  /\ rendered' = Rendering("reports", NoCounts, << >>, << >>)
  /\ UNCHANGED analysisData
  /\ ViewFrame

NextViews ==
  \/ RenderDashboard
  \/ \E kind \in {"pdf", "word"} : DownloadDashboardReport(kind)
  \/ DownloadSkillsReport
  \/ RenderClassSummary
  \/ RenderPlanner
  \/ RenderReports

SpecViews == InitViews /\ [][NextViews]_vars

(***************************************************************************)
(* The Reports view (Reports.tsx 12-47)                                    *)
(***************************************************************************)
\* the most service calls a view starts
MaxCalls == 3

\* a string from its chunks
RECURSIVE Flat(_)
Flat(chunks) == IF chunks = << >> THEN "" ELSE Head(chunks) \o Flat(Tail(chunks))

\* geminiService.ts 173-206: what generateParentReport settles with for a
\* student: the text the model wrote for the prompt of that student, the
\* stand-in for an empty response, or a rejection
ReportOutcomes == {"text", "empty", "error"}

GenerateParentReport(student, outcome) ==
  CASE outcome = "text"  -> [ok |-> TRUE, text |-> "Report for " \o Flat(student.studentName.s)]
    [] outcome = "empty" -> [ok |-> TRUE, text |-> "Failed to generate report."]
    [] outcome = "error" -> [ok |-> FALSE, text |-> ""]

\* Reports.tsx 38-46: the document handleDownload saves
SavedReport(student, text) ==
  <<[view     |-> "report-pdf",
     title    |-> "Parent Report: " \o Flat(student.studentName.s),
     fileName |-> "Report_" \o Flat(student.studentName.s) \o ".pdf",
     text     |-> text]>>

\* the classes whose students the Reports view lists
ReportFiles == {FileTwo, FileThree}

InitReports ==
  /\ fn = "none"
  /\ wb = NoWorkbook
  /\ pc = "idle"
  /\ questionMap = EmptyObj
  /\ skillMetadata = EmptyObj
  /\ students = << >>
  /\ skillStats = EmptyObj
  /\ weakestSkillsClasswide = << >>
  /\ groups = << >>
  /\ error = ""
  /\ profile = TRUE
  /\ currentView = "reports"
  /\ \/ \E file \in ReportFiles : analysisData = ParseExcelData(file).data
     \/ \E random \in SessionRandoms : analysisData = <<DemoData(random[1], random[2])>>
  /\ uploadError = ""
  /\ isProcessing = FALSE
  /\ pending = << >>
  /\ started = 0
  /\ history = << >>
  /\ NoViews

\* what no handler of Reports touches
ReportsFrame ==
  /\ UNCHANGED <<profile, currentView, analysisData, uploadError, isProcessing,
                 pending, history>>
  /\ UNCHANGED <<selectedGroup, generatedContent>>
  /\ UNCHANGED procVars

\* Reports.tsx 17-28: a click on a student of the list; up to the await of
\* generateParentReport
HandleGenerate(i) ==
  /\ started < MaxCalls
  /\ selectedStudent' = <<analysisData[1].students[i]>>
  /\ loading' = TRUE
  /\ reportText' = ""
  /\ calls' = Append(calls, analysisData[1].students[i])
  /\ started' = started + 1
  /\ UNCHANGED rendered
  /\ ReportsFrame

\* Reports.tsx 28-35: the call of handleGenerate number k settles;
\* setReportText(text) or setReportText("Error generating report."), then
\* setLoading(false)
ReportSettled(k, outcome) ==
  /\ LET r == GenerateParentReport(calls[k], outcome)
     IN reportText' = IF r.ok THEN r.text ELSE "Error generating report."
  /\ loading' = FALSE
  /\ calls' = RemoveAt(calls, k)
  /\ UNCHANGED <<selectedStudent, started, rendered>>
  /\ ReportsFrame

\* Reports.tsx 38-46, 90-96: the Download button is shown when reportText is
\* non-empty and loading is false; if (!selectedStudent || !reportText) return
HandleDownload ==
  /\ reportText # "" /\ ~loading
  /\ selectedStudent # << >>
  /\ rendered' = SavedReport(selectedStudent[1], reportText)
  /\ UNCHANGED <<selectedStudent, reportText, loading, calls, started>>
  /\ ReportsFrame

NextReports ==
  \/ \E i \in 1 .. Len(analysisData[1].students) : HandleGenerate(i)
  \/ \E k \in 1 .. Len(calls), outcome \in ReportOutcomes : ReportSettled(k, outcome)
  \/ HandleDownload

SpecReports == InitReports /\ [][NextReports]_vars

(***************************************************************************)
(* The Remedial Planner view (RemedialPlanner.tsx 17-48, 344-352)          *)
(***************************************************************************)
\* geminiService.ts 30-170: how the three calls of Promise.all settle.
\* generateRemedialPlan and generateWorksheet reject when the request fails;
\* generateWorksheet resolves with a stand-in text for an empty response;
\* generateSmartGoal rejects only from checkApiKey and resolves with its
\* fallback goal when the request fails
PlanOutcomes == {"ok", "error"}

WorksheetOutcomes == {"ok", "empty", "error"}

GoalOutcomes == {"ok", "fallback", "error"}

\* Promise.all fulfils: none of the three promises rejects
AllFulfilled(plan, worksheet, goal) ==
  plan # "error" /\ worksheet # "error" /\ goal # "error"

\* RemedialPlanner.tsx 37-41: the GeneratedContent of a group
ContentFor(group, plan, worksheet, goal) ==
  [remedialPlan     |-> "plan for " \o Flat(group.skillCode),
   worksheetContent |-> IF worksheet = "ok"
                        THEN "worksheet for " \o Flat(group.skillCode)
                        ELSE "Failed to generate worksheet.",
   smartGoal        |-> IF goal = "ok"
                        THEN "goal for " \o Flat(group.skillCode)
                        ELSE "The student will improve proficiency in "
                               \o Flat(group.skillCode) \o " to 80% within 2 weeks."]

\* variant of StoreContent that stores whenever the plan has been generated
StoreContentWithPlan(prev, group, plan, worksheet, goal) ==
  IF plan # "error"
  THEN (group.id :> ContentFor(group, plan, worksheet, goal)) @@ prev
  ELSE prev

\* RemedialPlanner.tsx 29-45: await Promise.all([...]), then
\* setGeneratedContent(prev => ({...prev, [group.id]: {...}})); catch: alert
StoreContent(prev, group, plan, worksheet, goal) ==
  IF AllFulfilled(plan, worksheet, goal)
  THEN (group.id :> ContentFor(group, plan, worksheet, goal)) @@ prev
  ELSE prev

\* the classes whose groups the planner lists
PlannerFiles == {FileTwo, FileThree}

InitPlanner ==
  /\ fn = "none"
  /\ wb = NoWorkbook
  /\ pc = "idle"
  /\ questionMap = EmptyObj
  /\ skillMetadata = EmptyObj
  /\ students = << >>
  /\ skillStats = EmptyObj
  /\ weakestSkillsClasswide = << >>
  /\ groups = << >>
  /\ error = ""
  /\ profile = TRUE
  /\ currentView = "planner"
  /\ \/ \E file \in PlannerFiles : analysisData = ParseExcelData(file).data
     \/ \E random \in SessionRandoms : analysisData = <<DemoData(random[1], random[2])>>
  /\ uploadError = ""
  /\ isProcessing = FALSE
  /\ pending = << >>
  /\ started = 0
  /\ history = << >>
  /\ NoViews

\* what no handler of RemedialPlanner touches
PlannerFrame ==
  /\ UNCHANGED <<profile, currentView, analysisData, uploadError, isProcessing,
                 pending, history>>
  /\ UNCHANGED <<rendered, selectedStudent, reportText>>
  /\ UNCHANGED procVars

\* RemedialPlanner.tsx 296-299: a click on a group of the sorted list
SetSelectedGroup(g) ==
  /\ selectedGroup' = <<SortedGroups(analysisData[1]).out[g]>>
  /\ UNCHANGED <<generatedContent, loading, calls, started>>
  /\ PlannerFrame

\* RemedialPlanner.tsx 25-33, 344-352: the Generate button is there for a
\* selected group without content and is disabled while loading; up to the
\* await of Promise.all
PlannerHandleGenerate ==
  /\ selectedGroup # << >>
  /\ selectedGroup[1].id \notin DOMAIN generatedContent
  /\ ~loading
  /\ started < MaxCalls
  /\ loading' = TRUE
  /\ calls' = Append(calls, selectedGroup[1])
  /\ started' = started + 1
  /\ UNCHANGED <<selectedGroup, generatedContent>>
  /\ PlannerFrame

\* RemedialPlanner.tsx 29-47: Promise.all of call k settles; the content
\* is stored or the alert is shown, then setLoading(false)
GenerationSettled(k, plan, worksheet, goal) ==
  /\ generatedContent' = StoreContent(generatedContent, calls[k], plan, worksheet, goal)
  /\ loading' = FALSE
  /\ calls' = RemoveAt(calls, k)
  /\ UNCHANGED <<selectedGroup, started>>
  /\ PlannerFrame

NextPlanner ==
  \/ \E g \in 1 .. Len(analysisData[1].groups) : SetSelectedGroup(g)
  \/ PlannerHandleGenerate
  \/ \E k \in 1 .. Len(calls), plan \in PlanOutcomes,
        worksheet \in WorksheetOutcomes, goal \in GoalOutcomes :
       GenerationSettled(k, plan, worksheet, goal)

SpecPlanner == InitPlanner /\ [][NextPlanner]_vars

(***************************************************************************)
(* Properties                                                              *)
(***************************************************************************)
Range(f) == {f[i] : i \in DOMAIN f}

IsParse == fn = "parseExcelData"

\* the handler has finished the student rows
StudentsDone == pc \in {"analysed", "aggregated", "resolved"}

\* the handler has finished the class statistics
StatsDone == pc \in {"aggregated", "resolved"}

\* the skill codes of the mapping rows the taxonomy builder accepts
MappedSkillCodes ==
  { MappingFields(wb.mapping[i]).sCode :
      i \in {j \in 1 .. Len(wb.mapping) :
               MappingRowAccepted(MappingFields(wb.mapping[j]))} }

\* the columns of a student row that name a registered question
QuestionColumns(row) == {k \in DOMAIN row : Has(questionMap, Trim(k))}

SkillCodesOf(perfs) == {perfs[i].skillCode : i \in 1 .. Len(perfs)}

\* C1: with N distinct skill codes in the mapping, every StudentAnalysis of
\* parseExcelData has exactly N skillPerformances, one per skill code,
\* whatever question columns the student's row has.
C1_SkillPerformancesComplete ==
  (IsParse /\ StudentsDone) =>
    \A i \in 1 .. Len(students) :
      /\ Len(students[i].skillPerformances) = Cardinality(MappedSkillCodes)
      /\ SkillCodesOf(students[i].skillPerformances) = MappedSkillCodes

\* two skills, and a student whose row has no question column at all next
\* to a student whose row has them all
C1_Witness ==
  /\ IsParse /\ pc = "resolved"
  /\ Cardinality(MappedSkillCodes) = 2
  /\ \E i, j \in 1 .. Len(students) :
       /\ QuestionColumns(wb.results[students[i].ref]) = {}
       /\ Cardinality(QuestionColumns(wb.results[students[j].ref])) = 2
       /\ Len(students[i].skillPerformances) = 2

\* C2: in every SkillStat of parseExcelData the four level counts add up to
\* the number of students.
C2_CountsPartitionStudents ==
  (IsParse /\ StatsDone) =>
    \A code \in DOMAIN skillStats.val :
      LET st == skillStats.val[code] IN
        st.strongCount + st.moderateCount + st.weakCount + st.criticalCount
          = Len(students)

\* two students who fall in different levels of the same skill
C2_Witness ==
  /\ IsParse /\ pc = "resolved"
  /\ Len(students) = 2
  /\ \E code \in DOMAIN skillStats.val :
       /\ skillStats.val[code].strongCount = 1
       /\ skillStats.val[code].criticalCount = 1

AllPerformances ==
  UNION {Range(students[i].skillPerformances) : i \in 1 .. Len(students)}

\* C3 as stated: every accuracy of parseExcelData lies in [0, 100] for
\* every mapping and every row with numeric score cells.
C3_Original ==
  (IsParse /\ StudentsDone) =>
    \A sp \in AllPerformances :
      /\ FracLeq(Frac(0, 1), sp.accuracy)
      /\ FracLeq(sp.accuracy, Frac(100, 1))

\* no counted score cell of the row is negative
ScoresNonNegative(row) ==
  \A k \in QuestionColumns(row) :
    JsNumber(row[k]).nan \/ JsNumber(row[k]).v >= 0

MaxMarksNonNegative ==
  \A q \in DOMAIN questionMap.val : questionMap.val[q].maxMarks >= 0

\* C3 amended: every accuracy of parseExcelData is at most 100; it is also
\* at least 0 for a row without negative score cells when no registered
\* question has negative Max Marks.
C3_AccuracyRange ==
  (IsParse /\ StudentsDone) =>
    \A i \in 1 .. Len(students) :
      \A sp \in Range(students[i].skillPerformances) :
        /\ FracLeq(sp.accuracy, Frac(100, 1))
        /\ (ScoresNonNegative(wb.results[students[i].ref]) /\ MaxMarksNonNegative)
             => FracLeq(Frac(0, 1), sp.accuracy)

\* a score above the question's Max Marks was counted and the accuracy is
\* 100; another skill of the row lies strictly between 0 and 100
C3_Witness ==
  /\ IsParse /\ pc = "resolved"
  /\ MaxMarksNonNegative
  /\ \E i \in 1 .. Len(students) :
       LET row == wb.results[students[i].ref] IN
         /\ ScoresNonNegative(row)
         /\ \E k \in QuestionColumns(row) :
              /\ ~JsNumber(row[k]).nan
              /\ JsNumber(row[k]).v > questionMap.val[Trim(k)].maxMarks
              /\ \E sp \in Range(students[i].skillPerformances) :
                   /\ sp.skillCode = questionMap.val[Trim(k)].skillCode
                   /\ FracEq(sp.accuracy, Frac(100, 1))

\* the places (group, position) at which the student object ref occurs
GroupPlaces(ref) ==
  { p \in UNION {{<<g, k>> : k \in 1 .. Len(groups[g].students)} : g \in 1 .. Len(groups)} :
      groups[p[1]].students[p[2]].ref = ref }

\* C4: a student with a skill below 70 is in exactly one group, the group
\* of the student's lowest-accuracy skill (weakestSkills[0]); a student
\* with no weakestSkills is in no group; groups hold students of the list.
C4_OneGroupPerWeakStudent ==
  (pc = "resolved") =>
    /\ \A i \in 1 .. Len(students) :
         LET s == students[i] IN
           /\ (\E sp \in Range(s.skillPerformances) : FracBelow(sp.accuracy, 70)) =>
                /\ Len(s.weakestSkills) > 0
                /\ Cardinality(GroupPlaces(s.ref)) = 1
                /\ \A p \in GroupPlaces(s.ref) :
                     /\ groups[p[1]].skillCode = s.weakestSkills[1].skillCode
                     /\ groups[p[1]].students[p[2]] = s
                /\ \A sp \in Range(s.skillPerformances) :
                     FracLeq(s.weakestSkills[1].accuracy, sp.accuracy)
           /\ (Len(s.weakestSkills) = 0) => GroupPlaces(s.ref) = {}
    /\ \A g \in 1 .. Len(groups) :
         Range(groups[g].students) \subseteq Range(students)

\* a student with two skills below 70 in a group, next to a student with
\* no weak skill who is in no group
C4_Witness ==
  /\ IsParse /\ pc = "resolved"
  /\ \E i, j \in 1 .. Len(students) :
       /\ Len(students[i].weakestSkills) = 2
       /\ Cardinality(GroupPlaces(students[i].ref)) = 1
       /\ Len(students[j].weakestSkills) = 0
       /\ Len(students[j].skillPerformances) = 2

\* C5: weakestSkills holds exactly the skillPerformances with accuracy
\* below 70, each once, in non-decreasing order of accuracy.
C5_WeakestSkillsExact ==
  (StudentsDone) =>
    \A i \in 1 .. Len(students) :
      LET s    == students[i]
          weak == {sp \in Range(s.skillPerformances) : FracBelow(sp.accuracy, 70)}
      IN /\ Range(s.weakestSkills) = weak
         /\ Len(s.weakestSkills) = Cardinality(weak)
         /\ \A k \in 1 .. Len(s.weakestSkills) - 1 :
              FracLeq(s.weakestSkills[k].accuracy, s.weakestSkills[k + 1].accuracy)

\* a parsed student whose two weak skills had to be swapped by the sort
C5_Witness ==
  /\ IsParse /\ pc = "resolved"
  /\ \E i \in 1 .. Len(students) :
       LET s == students[i] IN
         /\ Len(s.skillPerformances) = 2
         /\ Len(s.weakestSkills) = 2
         /\ s.weakestSkills[1] = s.skillPerformances[2]
         /\ FracLess(s.weakestSkills[1].accuracy, s.weakestSkills[2].accuracy)

StatOf(code) == skillStats.val[code]

\* C6: weakestSkillsClasswide of parseExcelData has min(3, number of
\* skills) entries, in non-decreasing order of avgAccuracy, and no skill
\* outside it has a lower avgAccuracy than a skill inside it; with fewer
\* than 3 skills it lists them all.
C6_WeakestClasswideRanking ==
  (IsParse /\ StatsDone) =>
    LET w     == weakestSkillsClasswide
        codes == DOMAIN skillStats.val
    IN /\ Len(w) = Min(3, Cardinality(codes))
       /\ Range(w) \subseteq codes
       /\ Cardinality(Range(w)) = Len(w)
       /\ \A k \in 1 .. Len(w) - 1 :
            FracLeq(StatOf(w[k]).avgAccuracy, StatOf(w[k + 1]).avgAccuracy)
       /\ \A inside \in Range(w), outside \in codes \ Range(w) :
            FracLeq(StatOf(inside).avgAccuracy, StatOf(outside).avgAccuracy)
       /\ (Cardinality(codes) < 3) => Range(w) = codes

\* four skills with students, the weakest of which is not among the first
\* three skills of the mapping
C6_Witness ==
  /\ IsParse /\ pc = "resolved"
  /\ Len(skillStats.keys) = 4
  /\ Len(students) = 2
  /\ Len(weakestSkillsClasswide) = 3
  /\ weakestSkillsClasswide[1] = skillStats.keys[4]
  /\ FracLess(StatOf(weakestSkillsClasswide[1]).avgAccuracy,
              StatOf(weakestSkillsClasswide[2]).avgAccuracy)

\* the threshold table of the levels
ThresholdLevel(accuracy) ==
  CASE FracBelow(accuracy, 50) -> "Critical"
    [] ~FracBelow(accuracy, 50) /\ FracBelow(accuracy, 70) -> "Weak"
    [] ~FracBelow(accuracy, 70) /\ FracBelow(accuracy, 80) -> "Moderate"
    [] ~FracBelow(accuracy, 80) -> "Strong"

LevelRank(level) ==
  CASE level = "Critical" -> 0
    [] level = "Weak"     -> 1
    [] level = "Moderate" -> 2
    [] level = "Strong"   -> 3

Lacks(row, h1, h2) == h1 \notin DOMAIN row /\ h2 \notin DOMAIN row

\* C8 as stated: a row that lacks a Student Name or lacks a Student ID is
\* not in ClassAnalysis.students.
C8_RowWithoutNameOrIdDropped ==
  (IsParse /\ StudentsDone) =>
    \A r \in 1 .. Len(wb.results) :
      (Lacks(wb.results[r], HStudentName, HStudentNameAlt)
         \/ Lacks(wb.results[r], HStudentID, HStudentIDAlt))
        => \A i \in 1 .. Len(students) : students[i].ref # r

\* C9: a workbook that lacks one of the two sheets is rejected with the
\* invalid-file message at the first step; no table is built, no student
\* row is analysed and the call never resolves.
C9_MissingSheetRejects ==
  (IsParse /\ ("QuestionsMapping" \notin wb.sheets \/ "StudentResults" \notin wb.sheets)) =>
    /\ pc \in {"start", "rejected"}
    /\ pc = "start" => (ENABLED RejectInvalidFile /\ ~ENABLED ValidateSheets)
    /\ pc = "rejected" => error = InvalidFileMessage
    /\ questionMap = EmptyObj /\ skillMetadata = EmptyObj
    /\ students = << >> /\ skillStats = EmptyObj
    /\ weakestSkillsClasswide = << >> /\ groups = << >>

\* a rejected workbook that has a QuestionsMapping sheet with rows but no
\* StudentResults sheet
C9_Witness ==
  /\ pc = "rejected"
  /\ "QuestionsMapping" \in wb.sheets
  /\ "StudentResults" \notin wb.sheets
  /\ Len(wb.mapping) > 0
  /\ error = InvalidFileMessage

\* the cell of a mapping row under the first header that has a truthy cell
QuestionNoCell(row) ==
  Or(Or(Get(row, HQuestionNo), Get(row, HQuestionNoAlt)), Get(row, HQNo))

SkillCodeCell(row) == Or(Get(row, HSkillCode), Get(row, HSkillCodeAlt))

MaxMarksCell(row) == Or(Get(row, HMaxMarks), Get(row, HMaxMarksAlt))

\* present and non-empty
Filled(cell) == cell.t # "none" /\ Trim(JsString(cell)) # << >>

\* the rule of C10: questionNo and skillCode filled, maxMarks a number
WellFormedMappingRow(row) ==
  /\ Filled(QuestionNoCell(row))
  /\ Filled(SkillCodeCell(row))
  /\ ~JsNumber(MaxMarksCell(row)).nan

\* C10 as stated: only well-formed mapping rows add a question or a skill,
\* and every well-formed row is registered wherever it stands.
C10_OnlyWellFormedRowsRegistered ==
  (IsParse /\ pc \in {"mapped", "analysed", "aggregated", "resolved"}) =>
    LET good == {r \in 1 .. Len(wb.mapping) : WellFormedMappingRow(wb.mapping[r])} IN
      /\ DOMAIN questionMap.val =
           {Trim(JsString(QuestionNoCell(wb.mapping[r]))) : r \in good}
      /\ DOMAIN skillMetadata.val =
           {Trim(JsString(SkillCodeCell(wb.mapping[r]))) : r \in good}

RECURSIVE SumOver(_, _)
SumOver(f, S) ==
  IF S = {} THEN 0
  ELSE LET x == CHOOSE y \in S : TRUE IN f[x] + SumOver(f, S \ {x})

\* the columns of a row that hold a parseable score for a question of the skill
CountedColumns(row, code) ==
  {k \in QuestionColumns(row) :
     questionMap.val[Trim(k)].skillCode = code /\ ~JsNumber(row[k]).nan}

\* C11: marksEarned <= totalMaxMarks for every student and skill; each
\* parseable score adds min(score, maxMarks) to the earned total and
\* maxMarks to the max total of its skill.
C11_EarnedWithinMax ==
  (IsParse /\ StudentsDone) =>
    \A i \in 1 .. Len(students) :
      LET row == wb.results[students[i].ref] IN
        \A sp \in Range(students[i].skillPerformances) :
          LET cols == CountedColumns(row, sp.skillCode) IN
            /\ sp.marksEarned <= sp.totalMaxMarks
            /\ sp.marksEarned =
                 SumOver([k \in cols |-> Min(JsNumber(row[k]).v,
                                             questionMap.val[Trim(k)].maxMarks)], cols)
            /\ sp.totalMaxMarks =
                 SumOver([k \in cols |-> questionMap.val[Trim(k)].maxMarks], cols)

\* a score of 9 for a question with Max Marks 5 is the only counted score
\* of its skill, and the skill has earned 5 of 5
C11_Witness ==
  /\ IsParse /\ pc = "resolved"
  /\ \E i \in 1 .. Len(students) :
       LET row == wb.results[students[i].ref] IN
         \E sp \in Range(students[i].skillPerformances) :
           /\ Cardinality(CountedColumns(row, sp.skillCode)) = 1
           /\ \E k \in CountedColumns(row, sp.skillCode) :
                /\ JsNumber(row[k]).v = 9
                /\ questionMap.val[Trim(k)].maxMarks = 5
           /\ sp.marksEarned = 5 /\ sp.totalMaxMarks = 5

\* a StudentAnalysis without the identity of the object
Unref(st) ==
  [studentId         |-> st.studentId,
   studentName       |-> st.studentName,
   overallScore      |-> st.overallScore,
   skillPerformances |-> st.skillPerformances,
   weakestSkills     |-> st.weakestSkills]

UnrefAll(studs) == [i \in 1 .. Len(studs) |-> Unref(studs[i])]

UnrefGroups(gs) ==
  [g \in 1 .. Len(gs) |->
     [id               |-> gs[g].id,
      skillCode        |-> gs[g].skillCode,
      skillDescription |-> gs[g].skillDescription,
      students         |-> UnrefAll(gs[g].students)]]

\* the guard of line 181 on a raw row
DroppedRow(row) ==
  RowDropped(Or(Get(row, HStudentName), Get(row, HStudentNameAlt)),
             JsString(Or(Get(row, HStudentID), Get(row, HStudentIDAlt))))

\* C12: the ClassAnalysis of an input with dropped rows equals the
\* ClassAnalysis of the same input without those rows: same students, same
\* SkillStats, same class-wide ranking, same groups.
C12_DroppedRowsHaveNoInfluence ==
  (IsParse /\ pc = "resolved") =>
    LET kept   == SelectSeq(wb.results, LAMBDA r : ~DroppedRow(r))
        studs2 == AnalyseRows(kept, Len(kept), questionMap, skillMetadata)
        stats2 == BuildSkillStats(EmptyObj, skillMetadata.keys, studs2, skillMetadata)
    IN /\ UnrefAll(students) = UnrefAll(studs2)
       /\ skillStats = stats2
       /\ weakestSkillsClasswide = WeakestClasswide(stats2)
       /\ UnrefGroups(groups) = UnrefGroups(ObjValues(BuildGroups(EmptyObj, studs2)))

\* a dropped row with scores stands before a kept row whose student is in
\* a group
C12_Witness ==
  /\ IsParse /\ pc = "resolved"
  /\ Len(wb.results) = 2
  /\ DroppedRow(wb.results[1])
  /\ QuestionColumns(wb.results[1]) # {}
  /\ Len(students) = 1
  /\ Len(groups) = 1
  /\ Len(skillStats.keys) = 2

\* the input of the end-to-end scenario: Q1 -> A (max 5), Q2 -> B (max 5),
\* one student with Q1 = 5 and Q2 = 0
C13_Scenario ==
  /\ IsParse
  /\ wb.sheets = BothSheets
  /\ Len(wb.mapping) = 2
  /\ LET f == MappingFields(wb.mapping[1]) IN
       f.qNo = <<"Q1">> /\ f.sCode = <<"A">> /\ f.max = Num(5)
  /\ LET f == MappingFields(wb.mapping[2]) IN
       f.qNo = <<"Q2">> /\ f.sCode = <<"B">> /\ f.max = Num(5)
  /\ Len(wb.results) = 1
  /\ ~DroppedRow(wb.results[1])
  /\ DOMAIN wb.results[1] \ {HStudentName, HStudentNameAlt, HStudentID, HStudentIDAlt}
       = {<<"Q1">>, <<"Q2">>}
  /\ wb.results[1][<<"Q1">>] = Int2Cell(5)
  /\ wb.results[1][<<"Q2">>] = Int2Cell(0)

\* C13: in the scenario, skill A has accuracy 100 and level Strong, skill B
\* accuracy 0 and level Critical, overallScore is 50, weakestSkills is B
\* alone and the only group is group-B with the one student.
C13_EndToEndScenario ==
  (C13_Scenario /\ pc = "resolved") =>
    /\ Len(students) = 1
    /\ LET st == students[1]
           a  == FindPerformance(st, <<"A">>)
           b  == FindPerformance(st, <<"B">>)
       IN /\ Len(st.skillPerformances) = 2
          /\ Len(a) = 1 /\ Len(b) = 1
          /\ FracEq(a[1].accuracy, Frac(100, 1)) /\ a[1].level = "Strong"
          /\ FracEq(b[1].accuracy, Frac(0, 1)) /\ b[1].level = "Critical"
          /\ FracEq(st.overallScore, Frac(50, 1))
          /\ st.weakestSkills = b
          /\ Len(groups) = 1
          /\ groups[1].id = <<"group-", "B">>
          /\ groups[1].students = <<st>>

C13_Witness == C13_Scenario /\ pc = "resolved" /\ Len(groups) = 1

\* the name cell of a raw row
NameCell(row) == Or(Get(row, HStudentName), Get(row, HStudentNameAlt))

\* C14: students lists the kept rows in the order of the rows of the sheet.
C14_StudentsInRowOrder ==
  (IsParse /\ StudentsDone) =>
    /\ \A i \in 1 .. Len(students) :
         /\ students[i].ref \in 1 .. Len(wb.results)
         /\ students[i].studentName = NameCell(wb.results[students[i].ref])
    /\ \A i, j \in 1 .. Len(students) :
         i < j => students[i].ref < students[j].ref

\* two kept rows with different names
C14_Witness ==
  /\ IsParse /\ pc = "resolved"
  /\ Len(students) = 2
  /\ students[1].studentName # students[2].studentName
  /\ students[1].studentName = NameCell(wb.results[1])

\* C15 as stated: the weakestSkillsClasswide of generateDemoData has three
\* entries, the skill codes of lowest avgAccuracy in its skillStats, in
\* non-decreasing order of avgAccuracy.
C15_DemoWeakestClasswideRanking ==
  (fn = "generateDemoData" /\ pc = "resolved") =>
    LET w     == weakestSkillsClasswide
        codes == DOMAIN skillStats.val
    IN /\ Len(w) = Min(3, Cardinality(codes))
       /\ Range(w) \subseteq codes
       /\ Cardinality(Range(w)) = Len(w)
       /\ \A k \in 1 .. Len(w) - 1 :
            FracLeq(StatOf(w[k]).avgAccuracy, StatOf(w[k + 1]).avgAccuracy)
       /\ \A inside \in Range(w), outside \in codes \ Range(w) :
            FracLeq(StatOf(inside).avgAccuracy, StatOf(outside).avgAccuracy)

\* the skill codes that appear in the result
DownstreamSkillCodes ==
  UNION {SkillCodesOf(students[i].skillPerformances) : i \in 1 .. Len(students)}
    \cup DOMAIN skillStats.val
    \cup {groups[g].skillCode : g \in 1 .. Len(groups)}

\* C17 as stated: every skill code of the result has a question mapped to
\* it in the final question table and a description in the skill metadata.
C17_DownstreamSkillsHaveQuestions ==
  (IsParse /\ pc = "resolved") =>
    \A code \in DownstreamSkillCodes :
      /\ \E q \in DOMAIN questionMap.val : questionMap.val[q].skillCode = code
      /\ code \in DOMAIN skillMetadata.val

\* C18 as stated: every registered QuestionMapping has maxMarks > 0.
C18_MaxMarksPositive ==
  (IsParse /\ pc \in {"mapped", "analysed", "aggregated", "resolved"}) =>
    \A q \in DOMAIN questionMap.val : questionMap.val[q].maxMarks > 0

\* the columns of a row that hold a parseable score for a question
AllCountedColumns(row) ==
  {k \in QuestionColumns(row) : ~JsNumber(row[k]).nan}

RECURSIVE SumSeq(_)
SumSeq(q) == IF q = << >> THEN 0 ELSE Head(q) + SumSeq(Tail(q))

\* C19: per student, the marksEarned of the skills add up to the earned
\* total of the row and the totalMaxMarks to its max total; overallScore is
\* 100 * earned / max when the max total is positive and 0 otherwise.
C19_OverallScoreFromTotals ==
  (IsParse /\ StudentsDone) =>
    \A i \in 1 .. Len(students) :
      LET row    == wb.results[students[i].ref]
          perfs  == students[i].skillPerformances
          cols   == AllCountedColumns(row)
          earned == SumSeq([k \in 1 .. Len(perfs) |-> perfs[k].marksEarned])
          max    == SumSeq([k \in 1 .. Len(perfs) |-> perfs[k].totalMaxMarks])
          score  == students[i].overallScore
      IN /\ earned = SumOver([k \in cols |-> Min(JsNumber(row[k]).v,
                                                 questionMap.val[Trim(k)].maxMarks)], cols)
         /\ max = SumOver([k \in cols |-> questionMap.val[Trim(k)].maxMarks], cols)
         /\ (max > 0) => score.n * max = 100 * earned * score.d
         /\ (max <= 0) => FracEq(score, Frac(0, 1))

\* a student with full marks in one skill and no counted score in the
\* other: overallScore is 100 although the skill accuracies are 100 and 0
C19_Witness ==
  /\ IsParse /\ pc = "resolved"
  /\ \E i \in 1 .. Len(students) :
       /\ Len(students[i].skillPerformances) = 2
       /\ \E sp \in Range(students[i].skillPerformances) : sp.totalMaxMarks = 0
       /\ \E sp \in Range(students[i].skillPerformances) : sp.totalMaxMarks > 0
       /\ FracEq(students[i].overallScore, Frac(100, 1))

\* the columns of a row that name a question and hold an unparseable cell
UnparseableColumns(row) ==
  {k \in QuestionColumns(row) : JsNumber(row[k]).nan}

\* the row without its unparseable score cells
WithoutUnparseable(row) ==
  [k \in DOMAIN row \ UnparseableColumns(row) |-> row[k]]

\* C20: an unparseable score cell under a question column changes no total
\* and raises no error: the student is emitted, with the analysis the row
\* has without that cell.
C20_UnparseableCellSkipped ==
  (IsParse /\ StudentsDone) =>
    /\ \A r \in 1 .. Len(wb.results) :
         (UnparseableColumns(wb.results[r]) # {} /\ ~DroppedRow(wb.results[r]))
           => \E i \in 1 .. Len(students) : students[i].ref = r
    /\ \A i \in 1 .. Len(students) :
         <<students[i]>> = AnalyseRow(WithoutUnparseable(wb.results[students[i].ref]),
                                      students[i].ref, questionMap, skillMetadata)

\* a student whose Q1 cell is text and whose Q2 cell is counted
C20_Witness ==
  /\ IsParse /\ pc = "resolved"
  /\ \E i \in 1 .. Len(students) :
       LET row == wb.results[students[i].ref] IN
         /\ UnparseableColumns(row) = {<<"Q1">>}
         /\ AllCountedColumns(row) = {<<"Q2">>}
         /\ \E sp \in Range(students[i].skillPerformances) :
              sp.marksEarned = 5 /\ sp.totalMaxMarks = 5
         /\ \E sp \in Range(students[i].skillPerformances) :
              sp.marksEarned = 0 /\ sp.totalMaxMarks = 0

\* the ClassAnalysis a load delivers, computed from its input alone
DataOf(load) ==
  IF load.kind = "file" THEN ParseExcelData(load.file).data
  ELSE <<DemoData(load.seed[1], load.seed[2])>>

\* C16: analysisData is null until the first onDataLoaded call and from then
\* on exactly the ClassAnalysis of the load that called onDataLoaded last,
\* with no student, skill or group of an earlier load.
C16_AnalysisDataIsLastLoad ==
  analysisData = IF history = << >> THEN << >>
                 ELSE DataOf(history[Len(history)])

\* the two-student file was loaded, then the one-student file: one student
C16_Witness ==
  /\ Len(history) = 2
  /\ history[1].kind = "file" /\ history[1].file = FileTwo
  /\ history[2].kind = "file" /\ history[2].file = FileOne
  /\ Len(analysisData) = 1
  /\ Len(analysisData[1].students) = 1

\* C21: a student whose row holds no parseable score for any question of a
\* known skill has exactly one SkillPerformance for that skill, with
\* marksEarned 0, totalMaxMarks 0, accuracy 0 and level Critical.
C21_UnansweredSkillIsCritical ==
  (IsParse /\ StudentsDone) =>
    \A i \in 1 .. Len(students) :
      \A code \in DOMAIN skillMetadata.val :
        CountedColumns(wb.results[students[i].ref], code) = {} =>
          LET perfs == students[i].skillPerformances
              at    == {k \in 1 .. Len(perfs) : perfs[k].skillCode = code}
          IN /\ Cardinality(at) = 1
             /\ \A k \in at :
                  /\ perfs[k].marksEarned = 0
                  /\ perfs[k].totalMaxMarks = 0
                  /\ FracEq(perfs[k].accuracy, Frac(0, 1))
                  /\ perfs[k].level = "Critical"

\* a student whose row has no question column at all: two skills, both
\* 0 of 0 and Critical
C21_Witness ==
  /\ IsParse /\ pc = "resolved"
  /\ \E i \in 1 .. Len(students) :
       /\ QuestionColumns(wb.results[students[i].ref]) = {}
       /\ Len(students[i].skillPerformances) = 2
       /\ \A sp \in Range(students[i].skillPerformances) :
            sp.totalMaxMarks = 0 /\ sp.level = "Critical"

\* the students whose worst skill is the skill code
MetAsWorst(code) ==
  {i \in 1 .. Len(students) :
     /\ Len(students[i].weakestSkills) > 0
     /\ students[i].weakestSkills[1].skillCode = code}

\* the place in the student list where the skill code is first met as
\* some student's worst skill
FirstMet(code) ==
  CHOOSE i \in MetAsWorst(code) : \A j \in MetAsWorst(code) : i <= j

\* the place of a group member in the student list
PlaceOf(member) == CHOOSE i \in 1 .. Len(students) : students[i] = member

\* C22 as stated: the groups are listed in the order in which their skill
\* code is first met as a student's worst skill, whatever the skill codes
\* are, and the members of a group are in student-list order.
C22_GroupsInFirstMetOrder ==
  pc = "resolved" =>
    /\ \A g, h \in 1 .. Len(groups) :
         g < h => FirstMet(groups[g].skillCode) < FirstMet(groups[h].skillCode)
    /\ \A g \in 1 .. Len(groups) :
         \A a, b \in 1 .. Len(groups[g].students) :
           a < b => PlaceOf(groups[g].students[a]) < PlaceOf(groups[g].students[b])

\* C23: the Dashboard counts every student under the level that the
\* per-skill thresholds give to the student's overallScore, and the four
\* counts add up to the number of students.
C23_DashboardLevelsCoincide ==
  (rendered # << >> /\ rendered[1].view = "dashboard") =>
    LET studs  == analysisData[1].students
        counts == rendered[1].proficiencyCounts
    IN /\ \A level \in Levels :
            counts[level] = Cardinality({i \in 1 .. Len(studs) :
                                           LevelOf(studs[i].overallScore) = level})
       /\ counts["Strong"] + counts["Moderate"] + counts["Weak"] + counts["Critical"]
            = Len(studs)

\* every student has an overallScore of exactly 80 and is counted as Strong
C23_Witness ==
  /\ rendered # << >> /\ rendered[1].view = "dashboard"
  /\ Len(analysisData[1].students) > 0
  /\ \A i \in 1 .. Len(analysisData[1].students) :
       FracEq(analysisData[1].students[i].overallScore, Frac(80, 1))
  /\ rendered[1].proficiencyCounts["Strong"] = Len(analysisData[1].students)

\* C24: no render and no export of the Dashboard, Class Summary, Remedial
\* Planner or Reports view changes the ClassAnalysis: students, groups,
\* skillStats and weakestSkillsClasswide keep their order and contents.
C24_ViewsLeaveAnalysisUnchanged ==
  [][analysisData' = analysisData]_vars

\* the planner has shown the two groups in the other order than
\* data.groups lists them: the larger group first
C24_Witness ==
  /\ rendered # << >>
  /\ rendered[1].view = "planner"
  /\ Len(rendered[1].groups) = 2
  /\ rendered[1].groups[1] = analysisData[1].groups[2]
  /\ rendered[1].groups[2] = analysisData[1].groups[1]
  /\ Len(analysisData[1].groups[1].students) < Len(analysisData[1].groups[2].students)

\* C25 as stated: when parseExcelData rejects during handleFileUpload,
\* onDataLoaded is not called (analysisData and the current view stay), the
\* error state becomes the message of the rejection and isProcessing becomes
\* false; the start of the next upload clears the error.
C25_RejectedUploadReported ==
  [][/\ \A i \in 1 .. Len(pending) :
          FileRejected(i) =>
            /\ analysisData' = analysisData
            /\ currentView' = currentView
            /\ history' = history
            /\ uploadError' = ParseExcelData(pending[i].file).message
            /\ isProcessing' = FALSE
     /\ \A file \in SessionFiles :
          HandleFileUpload(file) => uploadError' = ""]_vars

\* C26 as stated: once all loads have completed, analysisData is the
\* ClassAnalysis of the load that was started last among those that called
\* onDataLoaded; a load started earlier never overwrites a later one.
C26_LastStartedLoadWins ==
  (pending = << >> /\ history # << >>) =>
    LET last == history[Len(history)] IN
      /\ \A k \in 1 .. Len(history) : history[k].id <= last.id
      /\ analysisData = DataOf(last)

\* the component that shows the analysis in each of the four data views
ContentOf(view) ==
  CASE view = "dashboard"     -> "Dashboard"
    [] view = "class-summary" -> "ClassSummaryView"
    [] view = "planner"       -> "RemedialPlanner"
    [] view = "reports"       -> "Reports"

\* C29: in the four data views App shows the analysis exactly when
\* analysisData is non-null and the placeholder otherwise; no navigation to
\* a data view happens while no data is loaded; analysisData, once non-null,
\* never becomes null again.
C29_DataViewsNeedData ==
  /\ [](\A view \in Views \ {"upload"} :
          (profile /\ currentView = view) =>
            /\ (analysisData # << >>) => RenderView = ContentOf(view)
            /\ (analysisData = << >>) => RenderView = "RedirectToUpload")
  /\ [][\A view \in Views \ {"upload"} : ChangeView(view) => analysisData # << >>]_vars
  /\ [][analysisData # << >> => analysisData' # << >>]_vars

\* the user has gone to the reports view with data loaded, and Reports shows
C29_Witness ==
  /\ currentView = "reports"
  /\ analysisData # << >>
  /\ RenderView = "Reports"
  /\ pending = << >>

\* the texts that generating a report for the student can leave in reportText
ReportTextsOf(student) ==
  {GenerateParentReport(student, "text").text,
   GenerateParentReport(student, "empty").text,
   "Error generating report."}

\* C27 as stated: whenever loading is false and reportText is non-empty,
\* reportText is what was generated for the selected student, and a saved
\* report holds the text generated for the student it is named after.
C27_ReportBelongsToSelectedStudent ==
  /\ (~loading /\ reportText # "" /\ selectedStudent # << >>) =>
       reportText \in ReportTextsOf(selectedStudent[1])
  /\ (rendered # << >>) =>
       \E i \in 1 .. Len(analysisData[1].students) :
         /\ rendered = SavedReport(analysisData[1].students[i], rendered[1].text)
         /\ rendered[1].text \in ReportTextsOf(analysisData[1].students[i])

QuestionsOf(code) ==
  {q \in DOMAIN questionMap.val : questionMap.val[q].skillCode = code}

\* C28 as stated: for every student and skill, totalMaxMarks is at most the
\* sum of maxMarks of the questions mapped to the skill, whatever column
\* headers the row has.
C28_EachQuestionCountsOnce ==
  (IsParse /\ StudentsDone) =>
    \A i \in 1 .. Len(students) :
      \A sp \in Range(students[i].skillPerformances) :
        sp.totalMaxMarks <=
          SumOver([q \in QuestionsOf(sp.skillCode) |-> questionMap.val[q].maxMarks],
                  QuestionsOf(sp.skillCode))

====
